---- MODULE Spec2Model ----
(***************************************************************************)
(* Gestor de Dispositivos de Rede: the device model, the JSON codec, the   *)
(* master list with its filtered view, and the file gateway, as found in   *)
(* gestor_dispositivos_rede.py and dispositivos_rede_comentado.py.  The    *)
(* two files differ only in the condition of App.filtrar_lista; the        *)
(* variable programa says which of the two is running.                     *)
(*                                                                         *)
(* Representation of Python values:                                        *)
(*  - a device name is a tuple of one-character strings, so that lower()   *)
(*    and the substring test are computed; every other text is a string;   *)
(*  - None is PyNone where a string is expected and NomeNone where a name  *)
(*    is expected; the None object in a list of devices is NoneDisp;       *)
(*  - a dict is a record; d.get(k, default) is Get(d, k, default);         *)
(*    a JSON value that is not an object is NaoDict;                       *)
(*  - a reference to a device object is the position of the object in the  *)
(*    master list: filtrar_lista empties the view and rebuilds every       *)
(*    reference from the current master list, and every handler that       *)
(*    changes the master list calls it before returning.                   *)
(***************************************************************************)
EXTENDS Integers, Sequences, FiniteSets, TLC

VARIABLES
    programa,               \* which source file runs: "gestor" or "comentado"
    terminado,              \* TRUE when an exception escaped App.__init__
    dispositivos,           \* App.dispositivos, the master list
    dispositivos_exibidos,  \* App.dispositivos_exibidos, references into the master list
    tree,                   \* rows of App.tree; row i has iid i-1
    filter_nome_var,        \* text of the name filter entry
    filter_tipo_var,
    filter_marca_var,
    filter_estado_var,
    janela,                 \* the open JanelaDispositivo, or JanelaFechada;
                            \* partilhada: the master positions whose device
                            \* holds the list object of the sub-form;
                            \* original: self.dispositivo is the device at
                            \* self.index of the master list
    ultimo                  \* what the last handler did: op, result, message box,
                            \* prompt and answer, file content written

vars == <<programa, terminado, dispositivos, dispositivos_exibidos, tree,
          filter_nome_var, filter_tipo_var, filter_marca_var, filter_estado_var,
          janela, ultimo>>

(***************************************************************************)
(* Bounds                                                                  *)
(***************************************************************************)
MaxDisp == 1        \* on_save appends a device only while the master list is shorter

(***************************************************************************)
(* Python values                                                           *)
(***************************************************************************)
PyNone == "None"
NomeNone == <<PyNone>>
NoneDisp == [tipo |-> "NoneType"]
NaoDict == [py_tipo |-> "nao_dict"]

IsDict(v) == "py_tipo" \notin DOMAIN v

\* the empty dict {}
EmptyDict == [k \in {} |-> PyNone]

Get(d, k, default) == IF k \in DOMAIN d THEN d[k] ELSE default

\* str.lower() on one character
LowerChar(c) ==
    CASE c = "R" -> "r"
      [] c = "S" -> "s"
      [] c = "W" -> "w"
      [] OTHER -> c

\* str.lower()
Lower(s) == [i \in 1..Len(s) |-> LowerChar(s[i])]

\* the operator "a in b" on two str
Contains(a, b) ==
    \E i \in 0..(Len(b) - Len(a)) : SubSeq(b, i + 1, i + Len(a)) = a

Digits == {"0", "1", "2", "3", "4", "5", "6", "7", "8", "9"}

DigitVal(c) ==
    CASE c = "0" -> 0 [] c = "1" -> 1 [] c = "2" -> 2 [] c = "3" -> 3
      [] c = "4" -> 4 [] c = "5" -> 5 [] c = "6" -> 6 [] c = "7" -> 7
      [] c = "8" -> 8 [] c = "9" -> 9

RECURSIVE StripLeft(_)
StripLeft(s) == IF s # <<>> /\ Head(s) = " " THEN StripLeft(Tail(s)) ELSE s

RECURSIVE StripRight(_)
StripRight(s) ==
    IF s # <<>> /\ s[Len(s)] = " " THEN StripRight(SubSeq(s, 1, Len(s) - 1)) ELSE s

RECURSIVE DecVal(_)
DecVal(s) == IF s = <<>> THEN 0 ELSE 10 * DecVal(SubSeq(s, 1, Len(s) - 1)) + DigitVal(s[Len(s)])

\* int(text): surrounding blanks are dropped, an optional sign, then decimal
\* digits only; anything else raises ValueError
IntParse(text) ==
    LET t == StripRight(StripLeft(text))
        neg == t # <<>> /\ Head(t) = "-"
        body == IF t # <<>> /\ Head(t) \in {"-", "+"} THEN Tail(t) ELSE t
        ok == body # <<>> /\ \A i \in 1..Len(body) : body[i] \in Digits
    IN  IF ok THEN [exc |-> FALSE, val |-> IF neg THEN 0 - DecVal(body) ELSE DecVal(body)]
        ELSE [exc |-> TRUE, val |-> 0]

(***************************************************************************)
(* Device model                                                            *)
(***************************************************************************)
Tipos == {"Router", "Switch", "Servidor"}

\* Router(nome, marca, modelo, num_portas)
Router(nome, marca, modelo, num_portas) ==
    [tipo |-> "Router", nome |-> nome, marca |-> marca, modelo |-> modelo,
     estado |-> "Desligado", num_portas |-> num_portas, interfaces_ip |-> <<>>]

\* Switch(nome, marca, modelo, num_portas, ip_gestao)
Switch(nome, marca, modelo, num_portas, ip_gestao) ==
    [tipo |-> "Switch", nome |-> nome, marca |-> marca, modelo |-> modelo,
     estado |-> "Desligado", num_portas |-> num_portas, ip_gestao |-> ip_gestao,
     port_vlan_map |-> <<>>]

\* Servidor(nome, marca, modelo, endereco_ip, sistema_operativo)
Servidor(nome, marca, modelo, endereco_ip, sistema_operativo) ==
    [tipo |-> "Servidor", nome |-> nome, marca |-> marca, modelo |-> modelo,
     estado |-> "Desligado", endereco_ip |-> endereco_ip,
     sistema_operativo |-> sistema_operativo, servicos |-> <<>>]

ligar(d) == [d EXCEPT !.estado = "Ligado"]

\* a desligar that flips the state
desligar_inverte(d) ==
    [d EXCEPT !.estado = IF @ = "Desligado" THEN "Ligado" ELSE "Desligado"]

desligar(d) == [d EXCEPT !.estado = "Desligado"]

mostrar_info(d) ==
    [Nome |-> d.nome, Marca |-> d.marca, Modelo |-> d.modelo,
     Estado |-> d.estado, Tipo |-> d.tipo]

get_dados_especificos(d) ==
    CASE d.tipo = "Router" ->
            [num_portas |-> d.num_portas, interfaces_ip |-> d.interfaces_ip]
      [] d.tipo = "Switch" ->
            [num_portas |-> d.num_portas, ip_gestao |-> d.ip_gestao,
             port_vlan_map |-> d.port_vlan_map]
      [] d.tipo = "Servidor" ->
            [endereco_ip |-> d.endereco_ip, sistema_operativo |-> d.sistema_operativo,
             servicos |-> d.servicos]

to_dict(d) ==
    LET info == mostrar_info(d)
    IN  [Nome |-> info.Nome, Marca |-> info.Marca, Modelo |-> info.Modelo,
         Estado |-> info.Estado, Tipo |-> info.Tipo,
         dados_especificos |-> get_dados_especificos(d)]

\* the sub-entry list of a device, whatever its type
SubLista(d) ==
    CASE d.tipo = "Router" -> d.interfaces_ip
      [] d.tipo = "Switch" -> d.port_vlan_map
      [] d.tipo = "Servidor" -> d.servicos

\* the device d with the list l as its sub-entry list
ComSubLista(d, l) ==
    CASE d.tipo = "Router" -> [d EXCEPT !.interfaces_ip = l]
      [] d.tipo = "Switch" -> [d EXCEPT !.port_vlan_map = l]
      [] d.tipo = "Servidor" -> [d EXCEPT !.servicos = l]

(***************************************************************************)
(* Codec: criar_dispositivo_de_dict                                        *)
(***************************************************************************)
\* a decoder that leaves the state of the constructor, Desligado
RestaurarEstado_omitido(d, item) == d

\* a decoder whose default state is "Ligado"
RestaurarEstado_ligado(d, item) == [d EXCEPT !.estado = Get(item, "Estado", "Ligado")]

\* if dispositivo: dispositivo.estado = item.get("Estado", "Desligado")
RestaurarEstado(d, item) == [d EXCEPT !.estado = Get(item, "Estado", "Desligado")]

\* The result is [exc, val]: exc is TRUE when the exception leaves the
\* function (item.get on a value that is not a dict, before the try);
\* otherwise val is the device, or NoneDisp for the returned None.
criar_dispositivo_de_dict(item) ==
    IF ~IsDict(item) THEN [exc |-> TRUE, val |-> NoneDisp]
    ELSE
    LET tipo == Get(item, "Tipo", PyNone)
        dados == Get(item, "dados_especificos", EmptyDict)
        nome == Get(item, "Nome", NomeNone)
        marca == Get(item, "Marca", PyNone)
        modelo == Get(item, "Modelo", PyNone)
    IN  IF tipo \notin Tipos THEN [exc |-> FALSE, val |-> NoneDisp]
        ELSE IF ~IsDict(dados) THEN [exc |-> FALSE, val |-> NoneDisp]
        ELSE
        LET d == CASE tipo = "Router" ->
                        [Router(nome, marca, modelo, Get(dados, "num_portas", 0))
                            EXCEPT !.interfaces_ip = Get(dados, "interfaces_ip", <<>>)]
                   [] tipo = "Switch" ->
                        [Switch(nome, marca, modelo, Get(dados, "num_portas", 0),
                                Get(dados, "ip_gestao", ""))
                            EXCEPT !.port_vlan_map = Get(dados, "port_vlan_map", <<>>)]
                   [] tipo = "Servidor" ->
                        [Servidor(nome, marca, modelo, Get(dados, "endereco_ip", ""),
                                  Get(dados, "sistema_operativo", ""))
                            EXCEPT !.servicos = Get(dados, "servicos", <<>>)]
        IN  [exc |-> FALSE, val |-> RestaurarEstado(d, item)]

(***************************************************************************)
(* Derived display values                                                  *)
(***************************************************************************)
\* truth value of a str-or-None
Truthy(s) == s # PyNone /\ s # ""

\* a Router that shows the IP of its last interface
get_ip_principal_ultimo(d) ==
    CASE d.tipo = "Router" ->
            IF d.interfaces_ip # <<>>
            THEN Get(d.interfaces_ip[Len(d.interfaces_ip)], "ip", "Nenhum IP")
            ELSE "Nenhum IP"
      [] d.tipo = "Switch" -> IF Truthy(d.ip_gestao) THEN d.ip_gestao ELSE "N/A"
      [] d.tipo = "Servidor" -> d.endereco_ip

get_ip_principal(d) ==
    CASE d.tipo = "Router" ->
            IF d.interfaces_ip # <<>> THEN Get(d.interfaces_ip[1], "ip", "Nenhum IP")
            ELSE "Nenhum IP"
      [] d.tipo = "Switch" -> IF Truthy(d.ip_gestao) THEN d.ip_gestao ELSE "N/A"
      [] d.tipo = "Servidor" -> d.endereco_ip

\* ", ".join(ligacoes)
RECURSIVE Join(_)
Join(ss) ==
    IF ss = <<>> THEN ""
    ELSE IF Len(ss) = 1 THEN ss[1]
    ELSE ss[1] \o ", " \o Join(Tail(ss))

\* a summary that lists every sub-entry, linked or not
Ligacoes_todas(lista, chave) ==
    [i \in 1..Len(lista) |->
        Get(lista[i], chave, "?") \o ": " \o Get(lista[i], "ligado_a", PyNone)]

\* [f"{item.get(chave, '?')}: {item.get('ligado_a')}" for item in lista if item.get("ligado_a")]
RECURSIVE Ligacoes(_, _)
Ligacoes(lista, chave) ==
    IF lista = <<>> THEN <<>>
    ELSE LET item == Head(lista)
             resto == Ligacoes(Tail(lista), chave)
         IN  IF Truthy(Get(item, "ligado_a", PyNone))
             THEN <<Get(item, chave, "?") \o ": " \o item.ligado_a>> \o resto
             ELSE resto

\* a base default that reads as the summary of a device without links
DispositivoRede_get_ligacoes_str_nenhuma(d) == "Nenhuma"

\* DispositivoRede.get_ligacoes_str, which Servidor inherits
DispositivoRede_get_ligacoes_str(d) == "N/A"

get_ligacoes_str(d) ==
    CASE d.tipo = "Router" ->
            LET ligacoes == Ligacoes(d.interfaces_ip, "iface")
            IN  IF ligacoes # <<>> THEN Join(ligacoes) ELSE "Nenhuma"
      [] d.tipo = "Switch" ->
            LET ligacoes == Ligacoes(d.port_vlan_map, "porta")
            IN  IF ligacoes # <<>> THEN Join(ligacoes) ELSE "Nenhuma"
      [] d.tipo = "Servidor" -> DispositivoRede_get_ligacoes_str(d)

(***************************************************************************)
(* Filter: App.filtrar_lista and App.popular_lista                         *)
(***************************************************************************)
\* the element makes "dispositivo.nome.lower()" raise AttributeError
NomeRaises(d) == d = NoneDisp \/ d.nome = NomeNone

\* a condition that takes "Todos" for the wildcard of the brand filter
Passa_gestor_marcaTodos(d, f_nome, f_tipo, f_marca, f_estado) ==
    /\ Contains(f_nome, Lower(d.nome))
    /\ (f_tipo = "Todos" \/ d.tipo = f_tipo)
    /\ (f_marca = "Todos" \/ d.marca = f_marca)
    /\ (f_estado = "Todos" \/ d.estado = f_estado)

\* gestor_dispositivos_rede.py: the device is appended when the condition holds
Passa_gestor(d, f_nome, f_tipo, f_marca, f_estado) ==
    /\ Contains(f_nome, Lower(d.nome))
    /\ (f_tipo = "Todos" \/ d.tipo = f_tipo)
    /\ (f_marca = "Todas" \/ d.marca = f_marca)
    /\ (f_estado = "Todos" \/ d.estado = f_estado)

\* dispositivos_rede_comentado.py: the device is skipped (continue) when the
\* condition holds, and appended otherwise
Passa_comentado(d, f_nome, f_tipo, f_marca, f_estado) ==
    ~ (/\ ~Contains(f_nome, Lower(d.nome))
       /\ (f_tipo = "Todos" \/ d.tipo # f_tipo)
       /\ (f_marca = "Todas" \/ d.marca # f_marca)
       /\ (f_estado = "Todos" \/ d.estado # f_estado))

Passa(prog, d, f_nome, f_tipo, f_marca, f_estado) ==
    IF prog = "gestor" THEN Passa_gestor(d, f_nome, f_tipo, f_marca, f_estado)
    ELSE Passa_comentado(d, f_nome, f_tipo, f_marca, f_estado)

\* the loop of filtrar_lista from master position i on, exibidos being the
\* view built so far; exc is TRUE when an element raised and the loop stopped
\* a loop that puts each device that passes at the head of the view
RECURSIVE FiltrarLoop_invertido(_, _, _, _, _, _, _, _)
FiltrarLoop_invertido(prog, lista, i, exibidos, f_nome, f_tipo, f_marca, f_estado) ==
    IF i > Len(lista) THEN [exc |-> FALSE, exibidos |-> exibidos]
    ELSE IF NomeRaises(lista[i]) THEN [exc |-> TRUE, exibidos |-> exibidos]
    ELSE FiltrarLoop_invertido(prog, lista, i + 1,
                     IF Passa(prog, lista[i], f_nome, f_tipo, f_marca, f_estado)
                     THEN <<i>> \o exibidos ELSE exibidos,
                     f_nome, f_tipo, f_marca, f_estado)

RECURSIVE FiltrarLoop(_, _, _, _, _, _, _, _)
FiltrarLoop(prog, lista, i, exibidos, f_nome, f_tipo, f_marca, f_estado) ==
    IF i > Len(lista) THEN [exc |-> FALSE, exibidos |-> exibidos]
    ELSE IF NomeRaises(lista[i]) THEN [exc |-> TRUE, exibidos |-> exibidos]
    ELSE FiltrarLoop(prog, lista, i + 1,
                     IF Passa(prog, lista[i], f_nome, f_tipo, f_marca, f_estado)
                     THEN Append(exibidos, i) ELSE exibidos,
                     f_nome, f_tipo, f_marca, f_estado)

\* one row of the Treeview
Linha(d) ==
    LET info == mostrar_info(d)
    IN  [Nome |-> info.Nome, Tipo |-> info.Tipo, Estado |-> info.Estado,
         IP |-> get_ip_principal(d), Marca |-> info.Marca, Modelo |-> info.Modelo,
         Ligacoes |-> get_ligacoes_str(d)]

popular_lista(lista, exibidos) == [i \in 1..Len(exibidos) |-> Linha(lista[exibidos[i]])]

\* filtrar_lista on the master list "lista" with the filter texts given:
\* the view and the rows it leaves, and whether it raised (then popular_lista
\* was not reached and the rows are the old ones)
filtrar_lista(prog, lista, n_var, t_var, m_var, e_var, linhas) ==
    LET r == FiltrarLoop(prog, lista, 1, <<>>, Lower(n_var), t_var, m_var, e_var)
    IN  [exc |-> r.exc, exibidos |-> r.exibidos,
         tree |-> IF r.exc THEN linhas ELSE popular_lista(lista, r.exibidos)]

(***************************************************************************)
(* Files                                                                   *)
(***************************************************************************)
\* open(filepath, "r", encoding="utf-8") followed by json.load(f):
\*   "ausente"     open raises FileNotFoundError, an IOError
\*   "ilegivel"    the bytes are not UTF-8: f.read() raises UnicodeDecodeError
\*   "malformado"  json.load raises JSONDecodeError
\*   "nao_lista"   the text is JSON, and its top level is a number
\*   "json"        the text is a JSON array, parsed into valor
json_load(f) ==
    CASE f.kind = "ausente" -> [exc |-> "IOError", val |-> <<>>]
      [] f.kind = "ilegivel" -> [exc |-> "UnicodeDecodeError", val |-> <<>>]
      [] f.kind = "malformado" -> [exc |-> "JSONDecodeError", val |-> <<>>]
      [] f.kind = "nao_lista" -> [exc |-> "", val |-> <<>>]
      [] f.kind = "json" -> [exc |-> "", val |-> f.valor]

\* json.dump(lista_para_guardar, f) into a file opened with "w"
json_dump(lista_para_guardar) == [kind |-> "json", valor |-> lista_para_guardar]

\* os.path.exists(filepath)
exists(f) == f.kind # "ausente"

\* the loop "for item in lista_carregada" of _carregar_de_ficheiro: exc is
\* TRUE when criar_dispositivo_de_dict raised, which leaves the loop
\* a loop that ends at the first record for which the codec returns None
RECURSIVE CarregarLoop_para(_, _)
CarregarLoop_para(lista_carregada, nova_lista) ==
    IF lista_carregada = <<>> THEN [exc |-> FALSE, nova_lista |-> nova_lista]
    ELSE LET r == criar_dispositivo_de_dict(Head(lista_carregada))
         IN  IF r.exc THEN [exc |-> TRUE, nova_lista |-> nova_lista]
             ELSE IF r.val = NoneDisp THEN [exc |-> FALSE, nova_lista |-> nova_lista]
             ELSE CarregarLoop_para(Tail(lista_carregada), Append(nova_lista, r.val))

RECURSIVE CarregarLoop(_, _)
CarregarLoop(lista_carregada, nova_lista) ==
    IF lista_carregada = <<>> THEN [exc |-> FALSE, nova_lista |-> nova_lista]
    ELSE LET r == criar_dispositivo_de_dict(Head(lista_carregada))
         IN  IF r.exc THEN [exc |-> TRUE, nova_lista |-> nova_lista]
             ELSE CarregarLoop(Tail(lista_carregada),
                               IF r.val # NoneDisp THEN Append(nova_lista, r.val)
                               ELSE nova_lista)

\* a load that never asks
Pergunta_nunca(lista, perguntar_substituir) == FALSE

\* "if self.app.dispositivos and perguntar_substituir": askyesno is shown
Pergunta(lista, perguntar_substituir) == lista # <<>> /\ perguntar_substituir

\* a load that assigns the master list record by record
CarregarDeFicheiro_parcial(f, perguntar_substituir, resposta, prog, lista, exibidos, linhas, n_var, t_var, m_var, e_var) ==
    LET lido == json_load(f)
        pergunta == Pergunta(lista, perguntar_substituir)
        ciclo == CarregarLoop(lido.val, <<>>)
        filtro == filtrar_lista(prog, ciclo.nova_lista, n_var, t_var, m_var, e_var, linhas)
        igual == [dispositivos |-> lista, exibidos |-> exibidos, tree |-> linhas]
    IN  IF lido.exc \in {"IOError", "JSONDecodeError"}
        THEN igual @@ [res |-> "False", msg |-> "showerror", prompt |-> ""]
        ELSE IF lido.exc = "UnicodeDecodeError"
        THEN igual @@ [res |-> "excecao", msg |-> "", prompt |-> ""]
        ELSE IF pergunta /\ ~resposta
        THEN igual @@ [res |-> "False", msg |-> "", prompt |-> "nao"]
        ELSE IF f.kind = "nao_lista"
        THEN igual @@ [res |-> "excecao", msg |-> "",
                       prompt |-> IF pergunta THEN "sim" ELSE ""]
        ELSE IF ciclo.exc
        THEN [dispositivos |-> ciclo.nova_lista, exibidos |-> exibidos,
              tree |-> linhas, res |-> "excecao", msg |-> "",
              prompt |-> IF pergunta THEN "sim" ELSE ""]
        ELSE [dispositivos |-> ciclo.nova_lista, exibidos |-> filtro.exibidos,
              tree |-> filtro.tree,
              res |-> IF filtro.exc THEN "excecao" ELSE "True", msg |-> "",
              prompt |-> IF pergunta THEN "sim" ELSE ""]

\* _carregar_de_ficheiro(filepath, perguntar_substituir) on the file content f,
\* resposta being the answer the user gives to askyesno if it is asked.
\* res is "True", "False", or "excecao" when an exception leaves the method.
CarregarDeFicheiro(f, perguntar_substituir, resposta, prog, lista, exibidos, linhas, n_var, t_var, m_var, e_var) ==
    LET lido == json_load(f)
        pergunta == Pergunta(lista, perguntar_substituir)
        ciclo == CarregarLoop(lido.val, <<>>)
        filtro == filtrar_lista(prog, ciclo.nova_lista, n_var, t_var, m_var, e_var, linhas)
        igual == [dispositivos |-> lista, exibidos |-> exibidos, tree |-> linhas]
    IN  IF lido.exc \in {"IOError", "JSONDecodeError"}
        THEN igual @@ [res |-> "False", msg |-> "showerror", prompt |-> ""]
        ELSE IF lido.exc = "UnicodeDecodeError"
        THEN igual @@ [res |-> "excecao", msg |-> "", prompt |-> ""]
        ELSE IF pergunta /\ ~resposta
        THEN igual @@ [res |-> "False", msg |-> "", prompt |-> "nao"]
        ELSE IF f.kind = "nao_lista" \/ ciclo.exc
        THEN igual @@ [res |-> "excecao", msg |-> "",
                       prompt |-> IF pergunta THEN "sim" ELSE ""]
        ELSE [dispositivos |-> ciclo.nova_lista, exibidos |-> filtro.exibidos,
              tree |-> filtro.tree,
              res |-> IF filtro.exc THEN "excecao" ELSE "True", msg |-> "",
              prompt |-> IF pergunta THEN "sim" ELSE ""]

(***************************************************************************)
(* Inputs: what the user types and what the files hold                     *)
(***************************************************************************)
NomeR1 == <<"R", "1">>
NomeSrv == <<"s", "r", "v">>

IfaceA == [iface |-> "Gi0/1", ip |-> "192.168.1.1", mask |-> "255.255.255.0",
           ligado_a |-> "SW-Core"]
PortaA == [porta |-> "1", vlan |-> "10", ligado_a |-> ""]

ItemRouter ==
    [Nome |-> NomeR1, Marca |-> "Cisco", Modelo |-> "M", Estado |-> "Ligado",
     Tipo |-> "Router",
     dados_especificos |-> [num_portas |-> 4, interfaces_ip |-> <<IfaceA>>]]
ItemServidor ==
    [Nome |-> NomeSrv, Marca |-> "Dell", Modelo |-> "R740", Estado |-> "Desligado",
     Tipo |-> "Servidor",
     dados_especificos |-> [endereco_ip |-> "10.0.0.5", sistema_operativo |-> "Linux",
                            servicos |-> <<>>]]
ItemSwitch ==
    [Nome |-> NomeSrv, Marca |-> "Cisco", Modelo |-> "M", Estado |-> "Ligado",
     Tipo |-> "Switch",
     dados_especificos |-> [num_portas |-> 8, ip_gestao |-> "",
                            port_vlan_map |-> <<PortaA>>]]
\* a record with a type tag the program does not know
ItemFirewall ==
    [Nome |-> NomeR1, Marca |-> "Cisco", Modelo |-> "M", Estado |-> "Ligado",
     Tipo |-> "Firewall", dados_especificos |-> EmptyDict]
\* "dados_especificos": null
ItemDadosNull ==
    [Nome |-> NomeR1, Marca |-> "Cisco", Modelo |-> "M", Estado |-> "Ligado",
     Tipo |-> "Switch", dados_especificos |-> NaoDict]
\* neither "Estado" nor "dados_especificos"
ItemMinimo == [Nome |-> NomeR1, Marca |-> "Cisco", Modelo |-> "M", Tipo |-> "Router"]
\* "Nome": ""
ItemNomeVazio ==
    [Nome |-> <<>>, Marca |-> "Dell", Modelo |-> "R740", Estado |-> "Ligado",
     Tipo |-> "Servidor",
     dados_especificos |-> [endereco_ip |-> "10.0.0.5", sistema_operativo |-> "",
                            servicos |-> <<>>]]
\* no "Nome"
ItemSemNome ==
    [Marca |-> "Dell", Modelo |-> "R740", Estado |-> "Ligado", Tipo |-> "Servidor",
     dados_especificos |-> [endereco_ip |-> "10.0.0.5"]]

Ausente == [kind |-> "ausente"]
Ilegivel == [kind |-> "ilegivel"]
Malformado == [kind |-> "malformado"]
NaoLista == [kind |-> "nao_lista"]
DocMisto == json_dump(<<ItemRouter, ItemFirewall, ItemServidor, ItemSwitch>>)
DocParcial == json_dump(<<ItemDadosNull, ItemMinimo, ItemNomeVazio>>)
DocNaoDict == json_dump(<<ItemServidor, NaoDict, ItemRouter>>)
DocSemNome == json_dump(<<ItemSemNome>>)

\* the files the open dialog offers
Ficheiros == {Ausente, Ilegivel, Malformado, DocMisto, DocParcial, DocNaoDict}

\* what dispositivos.txt may hold when the program starts
FicheirosInicio == Ficheiros \cup {NaoLista, DocSemNome}

\* the texts of the four filter widgets (name, type, brand, state) when a
\* key release or a combobox selection fires filtrar_lista; text typed into a
\* combobox fires nothing, so several widgets may have changed by then
Filtros == {<< <<"R">>, "Todos", "Todas", "Todos" >>,
            << <<>>, "Router", "Todas", "Ligado" >>,
            << <<>>, "Todos", "Cisco", "Todos" >>}

\* the type combobox is editable: one of its three values, another text, or none
FormTipos == {"Router", "Switch", "Servidor", "Firewall", ""}

\* what the fields of the form hold when Guardar is pressed: every field
\* filled in, or one of them empty or not a number
Completo ==
    [nome |-> NomeR1, marca |-> "Cisco", modelo |-> "M", num_portas |-> <<"8">>,
     ip_gestao |-> "", endereco_ip |-> "10.0.0.5", sistema_operativo |-> ""]
Preenchimentos ==
    {Completo,
     [Completo EXCEPT !.nome = <<>>],
     [Completo EXCEPT !.marca = ""],
     [Completo EXCEPT !.modelo = ""],
     [Completo EXCEPT !.num_portas = <<"x">>],
     [Completo EXCEPT !.endereco_ip = ""]}

(***************************************************************************)
(* State                                                                   *)
(***************************************************************************)
JanelaFechada == [aberta |-> FALSE]

\* no file was read, or written
Nada == [kind |-> "nada"]

\* the record of a handler: its name, what it returned ("excecao" when an
\* exception left it), the message box shown, the answer to the askyesno
\* prompt if one was shown, the file content read and the one written
Feito(op, res, msg, prompt) ==
    [op |-> op, res |-> res, msg |-> msg, prompt |-> prompt, lido |-> Nada,
     escrito |-> Nada]

\* App.__init__: empty lists, limpar_filtros, then carregar_dispositivos_inicio
\* on the file dispositivos.txt, whose content is autoload
Init ==
    /\ programa \in {"gestor", "comentado"}
    /\ filter_nome_var = <<>>
    /\ filter_tipo_var = "Todos"
    /\ filter_marca_var = "Todas"
    /\ filter_estado_var = "Todos"
    /\ janela = JanelaFechada
    /\ \E autoload \in FicheirosInicio :
        IF ~exists(autoload)
        THEN /\ dispositivos = <<>>
             /\ dispositivos_exibidos = <<>>
             /\ tree = <<>>
             /\ terminado = FALSE
             /\ ultimo = Feito("carregar_dispositivos_inicio", "None", "", "")
        ELSE LET r == CarregarDeFicheiro(autoload, FALSE, FALSE, programa, <<>>, <<>>, <<>>,
                                         <<>>, "Todos", "Todas", "Todos")
             IN  /\ dispositivos = r.dispositivos
                 /\ dispositivos_exibidos = r.exibidos
                 /\ tree = r.tree
                 /\ terminado = (r.res = "excecao")
                 /\ ultimo = [Feito("carregar_dispositivos_inicio", r.res, r.msg, r.prompt)
                                EXCEPT !.lido = autoload]

\* the main window takes an event
Principal == ~terminado /\ ~janela.aberta

\* what filtrar_lista leaves, on the master list "lista", with the filters given
Filtrado(lista, n_var, t_var, m_var, e_var) ==
    filtrar_lista(programa, lista, n_var, t_var, m_var, e_var, tree)

\* a handler bound to a widget of the main window ends with filtrar_lista on
\* the master list "lista": op, message and prompt say what it did before
\* (r ranges over the one result of the call, which is computed once)
AposFiltrar(op, lista, msg, prompt) ==
    \E r \in {Filtrado(lista, filter_nome_var', filter_tipo_var', filter_marca_var',
                      filter_estado_var')} :
        /\ dispositivos' = lista
        /\ dispositivos_exibidos' = r.exibidos
        /\ tree' = r.tree
        /\ ultimo' = Feito(op, IF r.exc THEN "excecao" ELSE "None", msg, prompt)

\* a key released in the name entry, or a value picked in a filter combobox
MudarFiltro ==
    /\ Principal
    /\ \E f \in Filtros :
        /\ f # <<filter_nome_var, filter_tipo_var, filter_marca_var, filter_estado_var>>
        /\ filter_nome_var' = f[1]
        /\ filter_tipo_var' = f[2]
        /\ filter_marca_var' = f[3]
        /\ filter_estado_var' = f[4]
    /\ AposFiltrar("filtrar_lista", dispositivos, "", "")
    /\ UNCHANGED <<programa, terminado, janela>>

\* text typed into filter comboboxes that show their wildcard: the comboboxes
\* are editable and only <<ComboboxSelected>> is bound, so the StringVar
\* changes and no handler runs
escrever_filtro ==
    /\ Principal
    /\ \E f \in Filtros :
        /\ f[1] = filter_nome_var
        /\ f # <<filter_nome_var, filter_tipo_var, filter_marca_var, filter_estado_var>>
        /\ f[2] # filter_tipo_var => filter_tipo_var = "Todos"
        /\ f[3] # filter_marca_var => filter_marca_var = "Todas"
        /\ f[4] # filter_estado_var => filter_estado_var = "Todos"
        /\ filter_tipo_var' = f[2]
        /\ filter_marca_var' = f[3]
        /\ filter_estado_var' = f[4]
    /\ ultimo' = Feito("escrever_filtro", "None", "", "")
    /\ UNCHANGED <<programa, terminado, dispositivos, dispositivos_exibidos, tree,
                   filter_nome_var, janela>>

limpar_filtros ==
    /\ Principal
    /\ filter_nome_var' = <<>>
    /\ filter_tipo_var' = "Todos"
    /\ filter_marca_var' = "Todas"
    /\ filter_estado_var' = "Todos"
    /\ AposFiltrar("limpar_filtros", dispositivos, "", "")
    /\ UNCHANGED <<programa, terminado, janela>>

\* a lookup that takes the first row when none is selected
get_dispositivo_selecionado_primeira(sel) ==
    IF dispositivos_exibidos = <<>> \/ sel > Len(dispositivos_exibidos)
    THEN [index |-> 0, msg |-> "showwarning"]
    ELSE [index |-> dispositivos_exibidos[IF sel = 0 THEN 1 ELSE sel], msg |-> ""]

\* _get_dispositivo_selecionado with row sel selected (0: no row selected).
\* A reference is a master position, so dispositivos.index(dispositivo) is
\* that position when it is in the list and ValueError otherwise.
get_dispositivo_selecionado(sel) ==
    IF sel = 0 \/ sel > Len(dispositivos_exibidos)
    THEN [index |-> 0, msg |-> "showwarning"]
    ELSE LET dispositivo == dispositivos_exibidos[sel]
         IN  IF dispositivo \in 1..Len(dispositivos)
             THEN [index |-> dispositivo, msg |-> ""]
             ELSE [index |-> 0, msg |-> "showerror"]

Selecoes == 0..Len(tree)

(***************************************************************************)
(* The device form: JanelaDispositivo                                      *)
(***************************************************************************)
\* JanelaDispositivo(root, app): add mode, no device and no index (0 stands
\* for None); tipo_combo.current(0) picks "Router" and builds its sub-form
abrir_janela_adicionar ==
    /\ Principal
    /\ janela' = [aberta |-> TRUE, dispositivo |-> 0, index |-> 0,
                  tipo_var |-> "Router", lista_dados |-> <<>>,
                  partilhada |-> {}, original |-> FALSE]
    /\ ultimo' = Feito("abrir_janela_adicionar", "None", "", "")
    /\ UNCHANGED <<programa, terminado, dispositivos, dispositivos_exibidos, tree,
                   filter_nome_var, filter_tipo_var, filter_marca_var,
                   filter_estado_var>>

\* the user changes the type combobox, enabled in add mode only:
\* atualizar_campos_dinamicos destroys the sub-form and builds an empty one
atualizar_campos_dinamicos ==
    /\ ~terminado
    /\ janela.aberta
    /\ janela.dispositivo = 0
    /\ \E tipo \in FormTipos \ {janela.tipo_var} :
        janela' = [janela EXCEPT !.tipo_var = tipo, !.lista_dados = <<>>,
                                 !.partilhada = {}]
    /\ UNCHANGED <<programa, terminado, dispositivos, dispositivos_exibidos, tree,
                   filter_nome_var, filter_tipo_var, filter_marca_var,
                   filter_estado_var, ultimo>>

\* abrir_janela_editar: preencher_formulario sets the type of the device and
\* hands a copy of its sub-entry list to the sub-form
\* a form that opens on "Router" whatever the device is
preencher_formulario_router(d) == [tipo_var |-> "Router", lista_dados |-> <<>>]

\* preencher_formulario: what the type field and the sub-form hold for device d
preencher_formulario(d) == [tipo_var |-> d.tipo, lista_dados |-> SubLista(d)]

\* a sub-form that keeps the list object it is given
preencher_dados_a_propria(dados_lista, posicao) ==
    [lista_dados |-> dados_lista, partilhada |-> {posicao}]

\* SubFormularioMultiplo.preencher_dados on the sub-entry list of the device
\* at master position posicao: self.lista_dados = list(dados_lista), a new
\* list object, which no device of the master list holds
preencher_dados(dados_lista, posicao) ==
    [lista_dados |-> dados_lista, partilhada |-> {}]

abrir_janela_editar_com(sel) ==
    /\ Principal
    /\ LET s == get_dispositivo_selecionado(sel)
       IN  /\ janela' = IF s.index = 0 THEN janela
                        ELSE LET f == preencher_formulario(dispositivos[s.index])
                                 c == preencher_dados(f.lista_dados, s.index)
                             IN  [aberta |-> TRUE, dispositivo |-> s.index,
                                  index |-> s.index, tipo_var |-> f.tipo_var,
                                  lista_dados |-> c.lista_dados,
                                  partilhada |-> c.partilhada, original |-> TRUE]
           /\ ultimo' = Feito("abrir_janela_editar", "None", s.msg, "")
    /\ UNCHANGED <<programa, terminado, dispositivos, dispositivos_exibidos, tree,
                   filter_nome_var, filter_tipo_var, filter_marca_var,
                   filter_estado_var>>

abrir_janela_editar == \E sel \in Selecoes : abrir_janela_editar_com(sel)

\* the Cancelar button: destroy
cancelar ==
    /\ ~terminado
    /\ janela.aberta
    /\ janela' = JanelaFechada
    /\ ultimo' = Feito("cancelar", "None", "", "")
    /\ UNCHANGED <<programa, terminado, dispositivos, dispositivos_exibidos, tree,
                   filter_nome_var, filter_tipo_var, filter_marca_var,
                   filter_estado_var>>

\* a validation that does not look at the model field
CamposComunsVazios_semModelo(tipo, nome, marca, modelo) ==
    tipo = "" \/ nome = <<>> \/ marca = ""

\* not all([tipo, nome, marca, modelo])
CamposComunsVazios(tipo, nome, marca, modelo) ==
    tipo = "" \/ nome = <<>> \/ marca = "" \/ modelo = ""

\* the device on_save builds from the fields: exc is TRUE when a ValueError
\* is raised (a common field empty, int() of the port count, a Servidor
\* without IP); val is NoneDisp when the type is none of the three
NovoDispositivo(tipo, nome, marca, modelo, num_portas, ip_gestao, endereco_ip, so, lista_dados) ==
    IF CamposComunsVazios(tipo, nome, marca, modelo)
    THEN [exc |-> TRUE, val |-> NoneDisp]
    ELSE CASE tipo = "Router" ->
                LET n == IntParse(num_portas)
                IN  IF n.exc THEN [exc |-> TRUE, val |-> NoneDisp]
                    ELSE [exc |-> FALSE,
                          val |-> [Router(nome, marca, modelo, n.val)
                                     EXCEPT !.interfaces_ip = lista_dados]]
           [] tipo = "Switch" ->
                LET n == IntParse(num_portas)
                IN  IF n.exc THEN [exc |-> TRUE, val |-> NoneDisp]
                    ELSE [exc |-> FALSE,
                          val |-> [Switch(nome, marca, modelo, n.val, ip_gestao)
                                     EXCEPT !.port_vlan_map = lista_dados]]
           [] tipo = "Servidor" ->
                IF endereco_ip = "" THEN [exc |-> TRUE, val |-> NoneDisp]
                ELSE [exc |-> FALSE,
                      val |-> [Servidor(nome, marca, modelo, endereco_ip, so)
                                 EXCEPT !.servicos = lista_dados]]
           [] OTHER -> [exc |-> FALSE, val |-> NoneDisp]

\* lista[index] = valor, index being a Python index: 0 is the first element,
\* -1 the last, and an index outside -len..len-1 raises IndexError
setitem(lista, index, valor) ==
    IF index \in 0..(Len(lista) - 1)
    THEN [exc |-> FALSE, val |-> [lista EXCEPT ![index + 1] = valor]]
    ELSE IF index \in (-Len(lista))..(-1)
    THEN [exc |-> FALSE, val |-> [lista EXCEPT ![Len(lista) + index + 1] = valor]]
    ELSE [exc |-> TRUE, val |-> lista]

\* App.editar_dispositivo up to the call of filtrar_lista
\* an edit that puts the device at the end of the list
editar_dispositivo_fim(lista, index, dispositivo) ==
    [exc |-> FALSE, val |-> Append(lista, dispositivo)]

editar_dispositivo(lista, index, dispositivo) == setitem(lista, index, dispositivo)

\* App.adicionar_dispositivo up to the call of filtrar_lista
\* an insertion at the head of the list
adicionar_dispositivo_inicio(lista, dispositivo) == <<dispositivo>> \o lista

adicionar_dispositivo(lista, dispositivo) == Append(lista, dispositivo)

\* the Guardar button, the fields holding p.  Every exception is caught by
\* on_save and reported with showerror, and the window stays open; on
\* success the window is destroyed.
on_save_com(p) ==
    LET novo == NovoDispositivo(janela.tipo_var, p.nome, p.marca, p.modelo,
                                p.num_portas, p.ip_gestao, p.endereco_ip,
                                p.sistema_operativo, janela.lista_dados)
        \* novo_dispositivo.estado = self.dispositivo.estado
        semEstado == janela.dispositivo # 0 /\ novo.val = NoneDisp
        comEstado == IF janela.dispositivo # 0 /\ novo.val # NoneDisp
                     THEN [novo.val EXCEPT
                             !.estado = dispositivos[janela.dispositivo].estado]
                     ELSE novo.val
        \* janela.index is a master position, one more than the Python index
        editado == editar_dispositivo(dispositivos, janela.index - 1, comEstado)
        lista == IF janela.index # 0 THEN editado.val
                 ELSE adicionar_dispositivo(dispositivos, comEstado)
        r == Filtrado(lista, filter_nome_var, filter_tipo_var, filter_marca_var,
                      filter_estado_var)
    IN  /\ ~terminado
        /\ janela.aberta
        /\ IF novo.exc \/ semEstado \/ (janela.index # 0 /\ editado.exc)
           THEN /\ ultimo' = Feito("on_save", "None", "showerror", "")
                /\ UNCHANGED <<dispositivos, dispositivos_exibidos, tree, janela>>
           ELSE /\ janela.index = 0 => Len(dispositivos) < MaxDisp
                /\ dispositivos' = lista
                /\ dispositivos_exibidos' = r.exibidos
                /\ tree' = r.tree
                \* when filtrar_lista raised, destroy was not reached: the
                \* device just stored holds the list object of the sub-form
                /\ janela' = IF r.exc
                             THEN [janela EXCEPT
                                     !.original = FALSE,
                                     !.partilhada =
                                        IF comEstado = NoneDisp THEN @
                                        ELSE @ \cup {IF janela.index # 0 THEN janela.index
                                                     ELSE Len(dispositivos) + 1}]
                             ELSE JanelaFechada
                /\ ultimo' = Feito("on_save", "None",
                                   IF r.exc THEN "showerror" ELSE "", "")
        /\ UNCHANGED <<programa, terminado, filter_nome_var, filter_tipo_var,
                       filter_marca_var, filter_estado_var>>

on_save == \E p \in Preenchimentos : on_save_com(p)

(***************************************************************************)
(* The main window: remove, power toggle, export, import                   *)
(***************************************************************************)
\* a removal that always takes the last element
pop_ultimo(lista, index) == SubSeq(lista, 1, Len(lista) - 1)

\* list.pop(index), index being a master position
pop(lista, index) ==
    SubSeq(lista, 1, index - 1) \o SubSeq(lista, index + 1, Len(lista))

\* a Remover button that removes whatever the answer to the prompt
remover_dispositivo_sem_pergunta(sel, confirma) ==
    /\ Principal
    /\ UNCHANGED <<filter_nome_var, filter_tipo_var, filter_marca_var, filter_estado_var>>
    /\ LET s == get_dispositivo_selecionado(sel)
       IN  IF s.index = 0
           THEN /\ ultimo' = Feito("remover_dispositivo", "None", s.msg, "")
                /\ UNCHANGED <<dispositivos, dispositivos_exibidos, tree>>
           ELSE AposFiltrar("remover_dispositivo", pop(dispositivos, s.index), "",
                            IF confirma THEN "sim" ELSE "nao")
    /\ UNCHANGED <<programa, terminado, janela>>

\* the Remover button with row sel selected, askyesno answering confirma
remover_dispositivo_com(sel, confirma) ==
    /\ Principal
    /\ UNCHANGED <<filter_nome_var, filter_tipo_var, filter_marca_var, filter_estado_var>>
    /\ LET s == get_dispositivo_selecionado(sel)
       IN  IF s.index = 0
           THEN /\ ultimo' = Feito("remover_dispositivo", "None", s.msg, "")
                /\ UNCHANGED <<dispositivos, dispositivos_exibidos, tree>>
           ELSE IF ~confirma
           THEN /\ ultimo' = Feito("remover_dispositivo", "None", "", "nao")
                /\ UNCHANGED <<dispositivos, dispositivos_exibidos, tree>>
           ELSE AposFiltrar("remover_dispositivo", pop(dispositivos, s.index), "", "sim")
    /\ UNCHANGED <<programa, terminado, janela>>

remover_dispositivo ==
    \E sel \in Selecoes, confirma \in BOOLEAN : remover_dispositivo_com(sel, confirma)

\* the Ligar (ligar_ TRUE) or Desligar button with row sel selected
toggle_estado_com(sel, ligar_) ==
    /\ Principal
    /\ UNCHANGED <<filter_nome_var, filter_tipo_var, filter_marca_var, filter_estado_var>>
    /\ LET s == get_dispositivo_selecionado(sel)
       IN  IF s.index = 0
           THEN /\ ultimo' = Feito("toggle_estado", "None", s.msg, "")
                /\ UNCHANGED <<dispositivos, dispositivos_exibidos, tree>>
           ELSE AposFiltrar("toggle_estado",
                            [dispositivos EXCEPT ![s.index] =
                               IF ligar_ THEN ligar(@) ELSE desligar(@)],
                            "", "")
    /\ UNCHANGED <<programa, terminado, janela>>

toggle_estado ==
    \E sel \in Selecoes, ligar_ \in BOOLEAN : toggle_estado_com(sel, ligar_)

\* an export of the displayed view only
ListaParaGuardar_vista(lista) ==
    IF \E i \in 1..Len(lista) : lista[i] = NoneDisp
    THEN [exc |-> TRUE, val |-> <<>>]
    ELSE [exc |-> FALSE,
          val |-> [k \in 1..Len(dispositivos_exibidos) |->
                      to_dict(lista[dispositivos_exibidos[k]])]]

\* [d.to_dict() for d in self.app.dispositivos] raises on a None element
ListaParaGuardar(lista) ==
    IF \E i \in 1..Len(lista) : lista[i] = NoneDisp
    THEN [exc |-> TRUE, val |-> <<>>]
    ELSE [exc |-> FALSE, val |-> [i \in 1..Len(lista) |-> to_dict(lista[i])]]

\* Exportar Como...: escolhido is FALSE when the file dialog is cancelled,
\* abre is FALSE when open(filepath, "w") raises
guardar_dispositivos ==
    /\ Principal
    /\ \E escolhido \in BOOLEAN, abre \in BOOLEAN :
        LET l == ListaParaGuardar(dispositivos)
        IN  IF ~escolhido
            THEN ultimo' = Feito("guardar_dispositivos", "None", "", "")
            ELSE IF l.exc \/ ~abre
            THEN ultimo' = Feito("guardar_dispositivos", "None", "showerror", "")
            ELSE ultimo' = [Feito("guardar_dispositivos", "None", "showinfo", "")
                              EXCEPT !.escrito = json_dump(l.val)]
    /\ UNCHANGED <<programa, terminado, dispositivos, dispositivos_exibidos, tree,
                   filter_nome_var, filter_tipo_var, filter_marca_var,
                   filter_estado_var, janela>>

\* the files the open dialog offers: those of Ficheiros, and the file the
\* export has just written
Importaveis == Ficheiros \cup (IF ultimo.escrito = Nada THEN {} ELSE {ultimo.escrito})

\* what askyesno may return for the import of ficheiro: it is shown only
\* once the file was read and parsed and the master list is not empty
Respostas(ficheiro) ==
    IF json_load(ficheiro).exc = "" /\ Pergunta(dispositivos, TRUE)
    THEN BOOLEAN ELSE {TRUE}

\* _carregar_de_ficheiro on the file chosen in the open dialog, the prompt,
\* when shown, answered by resposta; every exception that leaves it is caught
\* by importar_dispositivos and reported with showerror
importar_com(ficheiro, resposta) ==
    /\ Principal
    /\ \E r \in {CarregarDeFicheiro(ficheiro, TRUE, resposta, programa, dispositivos,
                                    dispositivos_exibidos, tree, filter_nome_var,
                                    filter_tipo_var, filter_marca_var,
                                    filter_estado_var)} :
        /\ dispositivos' = r.dispositivos
        /\ dispositivos_exibidos' = r.exibidos
        /\ tree' = r.tree
        /\ ultimo' = [Feito("importar_dispositivos", r.res,
                            CASE r.res = "True" -> "showinfo"
                              [] r.res = "excecao" -> "showerror"
                              [] OTHER -> r.msg,
                            r.prompt)
                        EXCEPT !.lido = ficheiro]
    /\ UNCHANGED <<programa, terminado, filter_nome_var, filter_tipo_var,
                   filter_marca_var, filter_estado_var, janela>>

\* Importar de .txt: the open dialog is cancelled, or a file is chosen
importar_dispositivos ==
    \/ /\ Principal
       /\ ultimo' = Feito("importar_dispositivos", "None", "", "")
       /\ UNCHANGED <<dispositivos, dispositivos_exibidos, tree>>
       /\ UNCHANGED <<programa, terminado, filter_nome_var, filter_tipo_var,
                      filter_marca_var, filter_estado_var, janela>>
    \/ \E ficheiro \in Importaveis : \E resposta \in Respostas(ficheiro) :
            importar_com(ficheiro, resposta)

(***************************************************************************)
(* The codec on its own: the master list holds one device, built by the    *)
(* form with up to MaxSub sub-entries and switched on or off; export and   *)
(* import then apply to_dict and criar_dispositivo_de_dict to it.          *)
(***************************************************************************)
MaxSub == 2

IfaceB == [iface |-> "Gi0/2", ip |-> "10.1.1.1", mask |-> "255.0.0.0", ligado_a |-> ""]
PortaB == [porta |-> "2", vlan |-> "20", ligado_a |-> "R1"]
ServicoA == [nome |-> "web", ip |-> "10.0.0.6", placa |-> "eth0"]
ServicoB == [nome |-> "dns", ip |-> "10.0.0.7", placa |-> "eth1"]

ListasAte(S, n) == UNION {[1..k -> S] : k \in 0..n}

DispositivosDoFormulario ==
    {[Router(nome, "Cisco", "M", 8) EXCEPT !.interfaces_ip = l, !.estado = e] :
        nome \in {NomeR1, NomeSrv}, l \in ListasAte({IfaceA, IfaceB}, MaxSub),
        e \in {"Ligado", "Desligado"}}
    \cup
    {[Switch(nome, "Cisco", "M", 8, ip) EXCEPT !.port_vlan_map = l, !.estado = e] :
        nome \in {NomeR1}, ip \in {"", "10.0.0.2"},
        l \in ListasAte({PortaA, PortaB}, MaxSub), e \in {"Ligado", "Desligado"}}
    \cup
    {[Servidor(nome, "Dell", "R740", "10.0.0.5", so) EXCEPT !.servicos = l, !.estado = e] :
        nome \in {NomeSrv}, so \in {"", "Linux"},
        l \in ListasAte({ServicoA, ServicoB}, MaxSub), e \in {"Ligado", "Desligado"}}

InitCodec ==
    /\ programa \in {"gestor", "comentado"}
    /\ terminado = FALSE
    /\ filter_nome_var = <<>>
    /\ filter_tipo_var = "Todos"
    /\ filter_marca_var = "Todas"
    /\ filter_estado_var = "Todos"
    /\ janela = JanelaFechada
    /\ \E d \in DispositivosDoFormulario :
        /\ dispositivos = <<d>>
        /\ dispositivos_exibidos = <<1>>
        /\ tree = popular_lista(<<d>>, <<1>>)
    /\ ultimo = Feito("toggle_estado", "None", "", "")

NextCodec ==
    \/ guardar_dispositivos
    \/ importar_dispositivos

SpecCodec == InitCodec /\ [][NextCodec]_vars

(***************************************************************************)
(* App.editar_dispositivo on its own: the master list holds up to MaxLista *)
(* devices and the method is called with any index around its bounds.     *)
(***************************************************************************)
MaxLista == 3

DispRouter == Router(NomeR1, "Cisco", "M", 4)
DispServidor == Servidor(NomeSrv, "Dell", "R740", "10.0.0.5", "Linux")
DispSwitch == Switch(NomeSrv, "Cisco", "M", 8, "")
\* the device handed to editar_dispositivo
DispNovo == Servidor(NomeR1, "HP", "G", "10.0.0.9", "")

IndicesChamada == (-(MaxLista + 1))..(MaxLista + 1)

InitEditar ==
    /\ programa \in {"gestor", "comentado"}
    /\ terminado = FALSE
    /\ filter_nome_var = <<>>
    /\ filter_tipo_var = "Todos"
    /\ filter_marca_var = "Todas"
    /\ filter_estado_var = "Todos"
    /\ janela = JanelaFechada
    /\ \E l \in ListasAte({DispRouter, DispServidor, DispSwitch}, MaxLista) :
        LET r == filtrar_lista(programa, l, <<>>, "Todos", "Todas", "Todos", <<>>)
        IN  /\ dispositivos = l
            /\ dispositivos_exibidos = r.exibidos
            /\ tree = r.tree
    /\ ultimo = Feito("importar_dispositivos", "True", "showinfo", "")

\* App.editar_dispositivo(index, dispositivo): the assignment, then
\* filtrar_lista; an IndexError leaves the method before filtrar_lista
chamar_editar_dispositivo(index, dispositivo) ==
    /\ ~terminado
    /\ UNCHANGED <<filter_nome_var, filter_tipo_var, filter_marca_var, filter_estado_var>>
    /\ LET editado == editar_dispositivo(dispositivos, index, dispositivo)
       IN  IF editado.exc
           THEN /\ ultimo' = Feito("editar_dispositivo", "excecao", "", "")
                /\ UNCHANGED <<dispositivos, dispositivos_exibidos, tree>>
           ELSE AposFiltrar("editar_dispositivo", editado.val, "", "")
    /\ UNCHANGED <<programa, terminado, janela>>

NextEditar ==
    \E index \in IndicesChamada : chamar_editar_dispositivo(index, DispNovo)

SpecEditar == InitEditar /\ [][NextEditar]_vars

(***************************************************************************)
(* App.adicionar_dispositivo on its own: the master list starts with up to *)
(* MaxLista devices and the method is called with a device, or with None   *)
(* as on_save does for a type text that is none of the three classes.      *)
(***************************************************************************)
DispositivosAdicionados == {DispNovo, NoneDisp}

\* App.adicionar_dispositivo(dispositivo): append, then filtrar_lista
chamar_adicionar_dispositivo(dispositivo) ==
    /\ ~terminado
    /\ Len(dispositivos) <= MaxLista
    /\ UNCHANGED <<filter_nome_var, filter_tipo_var, filter_marca_var, filter_estado_var>>
    /\ AposFiltrar("adicionar_dispositivo",
                   adicionar_dispositivo(dispositivos, dispositivo), "", "")
    /\ UNCHANGED <<programa, terminado, janela>>

NextAdicionar ==
    \E d \in DispositivosAdicionados : chamar_adicionar_dispositivo(d)

SpecAdicionar == InitEditar /\ [][NextAdicionar]_vars

(***************************************************************************)
(* criar_dispositivo_de_dict on its own: the file imported holds one       *)
(* record of a known type, with or without "Estado", with or without       *)
(* "dados_especificos", and with any part of the keys of that mapping.     *)
(***************************************************************************)
\* dados_especificos of a record of type tipo that has every key
DadosCompletos(tipo) ==
    CASE tipo = "Router" -> [num_portas |-> 8, interfaces_ip |-> <<IfaceA>>]
      [] tipo = "Switch" ->
            [num_portas |-> 24, ip_gestao |-> "10.0.0.2", port_vlan_map |-> <<PortaA>>]
      [] tipo = "Servidor" ->
            [endereco_ip |-> "10.0.0.5", sistema_operativo |-> "Linux",
             servicos |-> <<ServicoA>>]

RegistosDe(tipo) ==
    {[Nome |-> NomeR1, Marca |-> "Cisco", Modelo |-> "M", Tipo |-> tipo] @@ e @@ de :
        e \in {EmptyDict, [Estado |-> "Ligado"], [Estado |-> "Desligado"]},
        de \in {EmptyDict}
               \cup {[dados_especificos |-> [k \in S |-> DadosCompletos(tipo)[k]]] :
                        S \in SUBSET DOMAIN DadosCompletos(tipo)}}

RegistosParciais == UNION {RegistosDe(tipo) : tipo \in Tipos}

InitRegisto ==
    /\ programa \in {"gestor", "comentado"}
    /\ terminado = FALSE
    /\ filter_nome_var = <<>>
    /\ filter_tipo_var = "Todos"
    /\ filter_marca_var = "Todas"
    /\ filter_estado_var = "Todos"
    /\ janela = JanelaFechada
    /\ dispositivos = <<>>
    /\ dispositivos_exibidos = <<>>
    /\ tree = <<>>
    /\ ultimo = Feito("carregar_dispositivos_inicio", "None", "", "")

NextRegisto ==
    \E item \in RegistosParciais : importar_com(json_dump(<<item>>), TRUE)

SpecRegisto == InitRegisto /\ [][NextRegisto]_vars

(***************************************************************************)
(* The sub-form of the device window: the master list holds one device     *)
(* with up to MaxSub sub-entries (and, in half of the initial states, the  *)
(* None a save with an unknown type text left behind); the user opens the  *)
(* edit form, adds, replaces and removes sub-entries, and saves or cancels.*)
(***************************************************************************)
\* the columns of the sub-form of a type that must be filled in
Requeridos(tipo) ==
    CASE tipo = "Router" -> {"iface", "ip", "mask"}
      [] tipo = "Switch" -> {"porta", "vlan"}
      [] tipo = "Servidor" -> {"nome", "ip", "placa"}

\* what the entries of the sub-form hold when one of its buttons is pressed
EntradasDe(tipo) ==
    CASE tipo = "Router" -> {IfaceA, IfaceB, [IfaceA EXCEPT !.mask = ""]}
      [] tipo = "Switch" -> {PortaA, PortaB, [PortaA EXCEPT !.vlan = ""]}
      [] tipo = "Servidor" -> {ServicoA, ServicoB, [ServicoA EXCEPT !.nome = ""]}

\* all(valores_requeridos)
EntradaValida(tipo, e) == \A k \in Requeridos(tipo) : e[k] # ""

\* the sub-form warns and changes nothing
AvisoSubFormulario(op) ==
    /\ ultimo' = Feito(op, "None", "showwarning", "")
    /\ UNCHANGED <<janela, dispositivos>>

\* append, item assignment and pop change the list object self.lista_dados
\* in place: every device that holds that object sees the change
MudarListaDados(op, nova) ==
    /\ janela' = [janela EXCEPT !.lista_dados = nova]
    /\ dispositivos' = [j \in 1..Len(dispositivos) |->
                            IF j \in janela.partilhada
                            THEN ComSubLista(dispositivos[j], nova)
                            ELSE dispositivos[j]]
    /\ ultimo' = Feito(op, "None", "", "")

\* a sub-form exists
SubFormulario == ~terminado /\ janela.aberta /\ janela.tipo_var \in Tipos

adicionar_novo_item ==
    /\ SubFormulario
    /\ \E e \in EntradasDe(janela.tipo_var) :
        IF ~EntradaValida(janela.tipo_var, e)
        THEN AvisoSubFormulario("adicionar_novo_item")
        ELSE /\ Len(janela.lista_dados) < MaxSub
             /\ MudarListaDados("adicionar_novo_item", Append(janela.lista_dados, e))
    /\ UNCHANGED <<programa, terminado, dispositivos_exibidos, tree, filter_nome_var,
                   filter_tipo_var, filter_marca_var, filter_estado_var>>

\* sel is the selected row of the sub-form, 0 when none is selected
guardar_edicao_selecionada ==
    /\ SubFormulario
    /\ \E sel \in 0..Len(janela.lista_dados), e \in EntradasDe(janela.tipo_var) :
        IF sel = 0 \/ ~EntradaValida(janela.tipo_var, e)
        THEN AvisoSubFormulario("guardar_edicao_selecionada")
        ELSE MudarListaDados("guardar_edicao_selecionada",
                             [janela.lista_dados EXCEPT ![sel] = e])
    /\ UNCHANGED <<programa, terminado, dispositivos_exibidos, tree, filter_nome_var,
                   filter_tipo_var, filter_marca_var, filter_estado_var>>

remover_item_selecionado ==
    /\ SubFormulario
    /\ \E sel \in 0..Len(janela.lista_dados) :
        IF sel = 0
        THEN AvisoSubFormulario("remover_item_selecionado")
        ELSE MudarListaDados("remover_item_selecionado", pop(janela.lista_dados, sel))
    /\ UNCHANGED <<programa, terminado, dispositivos_exibidos, tree, filter_nome_var,
                   filter_tipo_var, filter_marca_var, filter_estado_var>>

DispositivosComSub ==
    {ligar(ComSubLista(d, l)) :
        d \in {DispRouter}, l \in ListasAte({IfaceA, IfaceB}, MaxSub)}
    \cup {ComSubLista(d, l) :
        d \in {DispSwitch}, l \in ListasAte({PortaA, PortaB}, MaxSub)}
    \cup {ComSubLista(d, l) :
        d \in {DispServidor}, l \in ListasAte({ServicoA, ServicoB}, MaxSub)}

InitFormulario ==
    /\ programa \in {"gestor", "comentado"}
    /\ terminado = FALSE
    /\ filter_nome_var = <<>>
    /\ filter_tipo_var = "Todos"
    /\ filter_marca_var = "Todas"
    /\ filter_estado_var = "Todos"
    /\ janela = JanelaFechada
    /\ \E d \in DispositivosComSub, quebrada \in BOOLEAN :
        /\ dispositivos = IF quebrada THEN <<d, NoneDisp>> ELSE <<d>>
        /\ dispositivos_exibidos = <<1>>
        /\ tree = popular_lista(<<d>>, <<1>>)
    /\ ultimo = Feito("cancelar", "None", "", "")

NextFormulario ==
    \/ abrir_janela_editar
    \/ adicionar_novo_item
    \/ guardar_edicao_selecionada
    \/ remover_item_selecionado
    \/ cancelar
    \/ on_save

SpecFormulario == InitFormulario /\ [][NextFormulario]_vars

(***************************************************************************)
(* App.filtrar_lista on its own: the master list holds up to MaxLista      *)
(* devices, and the four filter widgets take every combination of their    *)
(* values, one widget at a time, each change firing filtrar_lista.         *)
(***************************************************************************)
DispositivosFiltro == {DispRouter, DispServidor, ligar(DispSwitch)}

\* texts of the name entry
NomesFiltro == {<<>>, <<"1">>, <<"S">>}
\* values of the three comboboxes
TiposFiltro == {"Todos", "Router", "Switch", "Servidor"}
MarcasFiltro == {"Todas", "Cisco", "Dell"}
EstadosFiltro == {"Todos", "Ligado", "Desligado"}

InitFiltro ==
    /\ programa \in {"gestor", "comentado"}
    /\ terminado = FALSE
    /\ filter_nome_var = <<>>
    /\ filter_tipo_var = "Todos"
    /\ filter_marca_var = "Todas"
    /\ filter_estado_var = "Todos"
    /\ janela = JanelaFechada
    /\ \E l \in ListasAte(DispositivosFiltro, MaxLista) :
        \E r \in {filtrar_lista(programa, l, <<>>, "Todos", "Todas", "Todos", <<>>)} :
            /\ dispositivos = l
            /\ dispositivos_exibidos = r.exibidos
            /\ tree = r.tree
    /\ ultimo = Feito("importar_dispositivos", "True", "showinfo", "")

\* <KeyRelease> in the name entry
escrever_nome ==
    /\ Principal
    /\ \E n \in NomesFiltro \ {filter_nome_var} : filter_nome_var' = n
    /\ UNCHANGED <<filter_tipo_var, filter_marca_var, filter_estado_var>>
    /\ AposFiltrar("filtrar_lista", dispositivos, "", "")
    /\ UNCHANGED <<programa, terminado, janela>>

\* <<ComboboxSelected>> in the type combobox
selecionar_tipo ==
    /\ Principal
    /\ \E t \in TiposFiltro \ {filter_tipo_var} : filter_tipo_var' = t
    /\ UNCHANGED <<filter_nome_var, filter_marca_var, filter_estado_var>>
    /\ AposFiltrar("filtrar_lista", dispositivos, "", "")
    /\ UNCHANGED <<programa, terminado, janela>>

\* <<ComboboxSelected>> in the brand combobox
selecionar_marca ==
    /\ Principal
    /\ \E m \in MarcasFiltro \ {filter_marca_var} : filter_marca_var' = m
    /\ UNCHANGED <<filter_nome_var, filter_tipo_var, filter_estado_var>>
    /\ AposFiltrar("filtrar_lista", dispositivos, "", "")
    /\ UNCHANGED <<programa, terminado, janela>>

\* <<ComboboxSelected>> in the state combobox
selecionar_estado ==
    /\ Principal
    /\ \E e \in EstadosFiltro \ {filter_estado_var} : filter_estado_var' = e
    /\ UNCHANGED <<filter_nome_var, filter_tipo_var, filter_marca_var>>
    /\ AposFiltrar("filtrar_lista", dispositivos, "", "")
    /\ UNCHANGED <<programa, terminado, janela>>

NextFiltro ==
    \/ escrever_nome
    \/ selecionar_tipo
    \/ selecionar_marca
    \/ selecionar_estado

SpecFiltro == InitFiltro /\ [][NextFiltro]_vars

Next ==
    \/ MudarFiltro
    \/ escrever_filtro
    \/ limpar_filtros
    \/ abrir_janela_adicionar
    \/ atualizar_campos_dinamicos
    \/ abrir_janela_editar
    \/ cancelar
    \/ on_save
    \/ remover_dispositivo
    \/ toggle_estado
    \/ guardar_dispositivos
    \/ importar_dispositivos

Spec == Init /\ [][Next]_vars

(***************************************************************************)
(* The whole program, with one more file in the open dialog: a document    *)
(* whose only record has no "Nome" key.                                    *)
(***************************************************************************)
NextSemNome ==
    \/ Next
    \/ \E resposta \in Respostas(DocSemNome) : importar_com(DocSemNome, resposta)

SpecSemNome == Init /\ [][NextSemNome]_vars

TypeOK ==
    /\ programa \in {"gestor", "comentado"}
    /\ terminado \in BOOLEAN
    /\ \A i \in 1..Len(dispositivos_exibidos) : dispositivos_exibidos[i] \in 1..Len(dispositivos)

(***************************************************************************)
(* Properties                                                              *)
(***************************************************************************)
Range(s) == {s[i] : i \in 1..Len(s)}

\* the last handler ran filtrar_lista to its end on the filter widgets
FiltrouAteAoFim ==
    /\ ultimo.op \in {"filtrar_lista", "limpar_filtros"}
    /\ ultimo.msg = ""

\* the four sub-predicates of the filter, on the texts of the widgets
CumpreNome(d) == Contains(Lower(filter_nome_var), Lower(d.nome))
CumpreTipo(d) == filter_tipo_var = "Todos" \/ d.tipo = filter_tipo_var
CumpreMarca(d) == filter_marca_var = "Todas" \/ d.marca = filter_marca_var
CumpreEstado(d) == filter_estado_var = "Todos" \/ d.estado = filter_estado_var

\* C1: in both programs, once filtrar_lista has run, a device of the master
\* list is in the view if and only if it satisfies all four sub-predicates
\* (name substring, type, brand, state).
C1_FiltroConjuncao ==
    FiltrouAteAoFim =>
        \A i \in 1..Len(dispositivos) :
            i \in Range(dispositivos_exibidos) <=>
                (/\ CumpreNome(dispositivos[i])
                 /\ CumpreTipo(dispositivos[i])
                 /\ CumpreMarca(dispositivos[i])
                 /\ CumpreEstado(dispositivos[i]))

\* C2: decoding the document of a device gives back a device equal to it in
\* every attribute, empty sub-lists and the state Desligado included.
C2_RoundTrip ==
    \A i \in 1..Len(dispositivos) :
        dispositivos[i] # NoneDisp =>
            criar_dispositivo_de_dict(to_dict(dispositivos[i]))
                = [exc |-> FALSE, val |-> dispositivos[i]]

\* a device with two sub-entries came back from the file it was exported to
C2_Witness ==
    /\ ultimo.op = "importar_dispositivos"
    /\ ultimo.res = "True"
    /\ Len(dispositivos) = 1
    /\ dispositivos[1].estado = "Desligado"
    /\ Len(SubLista(dispositivos[1])) = 2
    /\ SubLista(dispositivos[1])[1] # SubLista(dispositivos[1])[2]
    /\ ultimo.lido = json_dump(<<to_dict(dispositivos[1])>>)

\* a device with no sub-entry, switched off, came back from its file
C2_WitnessVazio ==
    /\ ultimo.op = "importar_dispositivos"
    /\ ultimo.res = "True"
    /\ Len(dispositivos) = 1
    /\ dispositivos[1].estado = "Desligado"
    /\ SubLista(dispositivos[1]) = <<>>
    /\ ultimo.lido = json_dump(<<to_dict(dispositivos[1])>>)

\* C3: a handler that reports an error (showerror or showwarning) leaves the
\* master list and the view as they were, and no error ends the program.
C3_ErroNaoAltera ==
    /\ [](~terminado)
    /\ [][ultimo'.msg \in {"showerror", "showwarning"} =>
            UNCHANGED <<dispositivos, dispositivos_exibidos>>]_vars

\* the fields p do not pass the validation of on_save
Invalido(p) ==
    \/ janela.tipo_var = "" \/ p.nome = <<>> \/ p.marca = "" \/ p.modelo = ""
    \/ (janela.tipo_var \in {"Router", "Switch"} /\ IntParse(p.num_portas).exc)
    \/ (janela.tipo_var = "Servidor" /\ p.endereco_ip = "")

\* C4: when on_save rejects the form (a common field missing, a port count
\* that is not an integer, a Servidor without IP), it reports the error and
\* changes neither the master list nor the view nor the rows, and the window
\* stays open, in add mode and in edit mode.
C4_ValidacaoNaoAltera ==
    [][\A p \in Preenchimentos :
        (janela.aberta /\ ultimo'.op = "on_save" /\ Invalido(p) /\ on_save_com(p))
            => /\ ultimo'.msg = "showerror"
               /\ UNCHANGED <<dispositivos, dispositivos_exibidos, tree, janela>>]_vars

\* the form of an existing device has just rejected its fields
C4_WitnessEditar ==
    /\ janela.aberta
    /\ janela.index # 0
    /\ ultimo.op = "on_save"
    /\ ultimo.msg = "showerror"
    /\ \A i \in 1..Len(dispositivos) : dispositivos[i] # NoneDisp

\* the form of a new Servidor has just rejected its fields
C4_WitnessAdicionar ==
    /\ janela.aberta
    /\ janela.index = 0
    /\ janela.tipo_var = "Servidor"
    /\ ultimo.op = "on_save"
    /\ ultimo.msg = "showerror"
    /\ \A i \in 1..Len(dispositivos) : dispositivos[i] # NoneDisp

\* C5: when the file cannot be read or its text is not JSON, the import
\* reports the failure, _carregar_de_ficheiro returns False, and the master
\* list and the view are unchanged.
C5_FalhaDeLeitura ==
    [][(/\ ultimo'.op = "importar_dispositivos"
        /\ ultimo'.lido # Nada
        /\ ultimo'.lido.kind \in {"ausente", "ilegivel", "malformado"})
            => /\ ultimo'.res = "False"
               /\ ultimo'.msg = "showerror"
               /\ UNCHANGED <<dispositivos, dispositivos_exibidos>>]_vars

\* C6: an import into a non-empty master list replaces it only when the
\* confirmation was answered yes; answered no, the master list and the view
\* are unchanged and the load returns False.
C6_Confirmacao ==
    [][(ultimo'.op = "importar_dispositivos" /\ dispositivos # <<>>)
        => /\ (dispositivos' # dispositivos \/ ultimo'.res = "True")
                  => ultimo'.prompt = "sim"
           /\ ultimo'.prompt = "nao"
                  => /\ ultimo'.res = "False"
                     /\ UNCHANGED <<dispositivos, dispositivos_exibidos, tree>>]_vars

\* the confirmation of an import that would have changed a non-empty master
\* list was answered no
C6_Witness ==
    /\ ultimo.op = "importar_dispositivos"
    /\ ultimo.prompt = "nao"
    /\ ultimo.res = "False"
    /\ dispositivos # <<>>
    /\ ultimo.lido = DocMisto
    /\ Len(dispositivos) # 3

\* the confirmation was answered yes and the master list was replaced
C6_WitnessSim ==
    /\ ultimo.op = "importar_dispositivos"
    /\ ultimo.prompt = "sim"
    /\ ultimo.res = "True"
    /\ ultimo.lido = DocParcial
    /\ Len(dispositivos) = 2

\* the last handler read a JSON array and was not stopped at the confirmation
Carregou ==
    /\ ultimo.op \in {"importar_dispositivos", "carregar_dispositivos_inicio"}
    /\ ultimo.lido.kind = "json"
    /\ ultimo.prompt # "nao"

ChavesEspecificas(tipo) ==
    CASE tipo = "Router" -> {"num_portas", "interfaces_ip"}
      [] tipo = "Switch" -> {"num_portas", "ip_gestao", "port_vlan_map"}
      [] tipo = "Servidor" -> {"endereco_ip", "sistema_operativo", "servicos"}

\* a record of a known type with every field of the file format
RegistoValido(item) ==
    /\ IsDict(item)
    /\ {"Nome", "Marca", "Modelo", "Estado", "Tipo", "dados_especificos"}
          \subseteq DOMAIN item
    /\ item.Tipo \in Tipos
    /\ IsDict(item.dados_especificos)
    /\ ChavesEspecificas(item.Tipo) \subseteq DOMAIN item.dados_especificos

\* a record whose type tag is none of the three
RegistoDesconhecido(item) ==
    IsDict(item) /\ "Tipo" \in DOMAIN item /\ item.Tipo \notin Tipos

\* the device a valid record describes
DispositivoDe(item) ==
    LET de == item.dados_especificos
    IN  CASE item.Tipo = "Router" ->
                [tipo |-> "Router", nome |-> item.Nome, marca |-> item.Marca,
                 modelo |-> item.Modelo, estado |-> item.Estado,
                 num_portas |-> de.num_portas, interfaces_ip |-> de.interfaces_ip]
          [] item.Tipo = "Switch" ->
                [tipo |-> "Switch", nome |-> item.Nome, marca |-> item.Marca,
                 modelo |-> item.Modelo, estado |-> item.Estado,
                 num_portas |-> de.num_portas, ip_gestao |-> de.ip_gestao,
                 port_vlan_map |-> de.port_vlan_map]
          [] item.Tipo = "Servidor" ->
                [tipo |-> "Servidor", nome |-> item.Nome, marca |-> item.Marca,
                 modelo |-> item.Modelo, estado |-> item.Estado,
                 endereco_ip |-> de.endereco_ip,
                 sistema_operativo |-> de.sistema_operativo, servicos |-> de.servicos]

\* C7: a document whose records are valid or bear an unknown type tag loads
\* exactly the devices of its valid records, in their order, and the load
\* does not abort.
C7_TipoDesconhecido ==
    (/\ Carregou
     /\ \A k \in 1..Len(ultimo.lido.valor) :
            RegistoValido(ultimo.lido.valor[k]) \/ RegistoDesconhecido(ultimo.lido.valor[k]))
        => /\ ultimo.res = "True"
           /\ LET validos == SelectSeq(ultimo.lido.valor, RegistoValido)
              IN  dispositivos = [k \in 1..Len(validos) |-> DispositivoDe(validos[k])]

\* three valid records and one of unknown type were imported: three devices
C7_Witness ==
    /\ ultimo.op = "importar_dispositivos"
    /\ ultimo.lido = DocMisto
    /\ ultimo.res = "True"
    /\ Len(dispositivos) = 3
    /\ dispositivos[1].tipo = "Router"
    /\ dispositivos[2].tipo = "Servidor"
    /\ dispositivos[3].tipo = "Switch"

\* the record decodes to a device
Descodifica(item) ==
    /\ IsDict(item)
    /\ Get(item, "Tipo", PyNone) \in Tipos
    /\ IsDict(Get(item, "dados_especificos", EmptyDict))

\* C8: whatever makes a record fail to decode (it is not a mapping, its
\* dados_especificos is not a mapping, its type is unknown), the record is
\* skipped and the other records of the document are loaded, in their order.
C8_RegistoFalhadoIgnorado ==
    (/\ Carregou
     /\ \A k \in 1..Len(ultimo.lido.valor) :
            IsDict(ultimo.lido.valor[k]) => "Nome" \in DOMAIN ultimo.lido.valor[k])
    =>
        /\ ultimo.res = "True"
        /\ LET bons == SelectSeq(ultimo.lido.valor, Descodifica)
           IN  dispositivos =
                  [k \in 1..Len(bons) |-> criar_dispositivo_de_dict(bons[k]).val]

\* C9: an export writes the document of every device of the master list, in
\* order, whatever the filter shows, and leaves the master list as it was;
\* importing the file just written gives a master list equal to it.
C9_ExportarImportar ==
    [][/\ (ultimo'.op = "guardar_dispositivos" /\ ultimo'.msg = "showinfo")
            => /\ dispositivos' = dispositivos
               /\ ultimo'.escrito.kind = "json"
               /\ Len(ultimo'.escrito.valor) = Len(dispositivos)
               /\ \A i \in 1..Len(dispositivos) :
                      ultimo'.escrito.valor[i] = to_dict(dispositivos[i])
       /\ (/\ ultimo.escrito # Nada
           /\ ultimo'.op = "importar_dispositivos"
           /\ ultimo'.lido = ultimo.escrito
           /\ ultimo'.prompt # "nao")
            => dispositivos' = dispositivos]_vars

\* a master list of which the filter showed only a part was exported, and the
\* file was imported again
C9_Witness ==
    /\ ultimo.op = "importar_dispositivos"
    /\ ultimo.res = "True"
    /\ Len(dispositivos) = 3
    /\ Len(dispositivos_exibidos) < 3
    /\ ultimo.lido = json_dump([i \in 1..3 |-> to_dict(dispositivos[i])])

\* positions of the master list, each greater than the one before
Subsequencia(exibidos, lista) ==
    /\ \A k \in 1..Len(exibidos) : exibidos[k] \in 1..Len(lista)
    /\ \A k \in 1..(Len(exibidos) - 1) : exibidos[k] < exibidos[k + 1]

\* C10: filtering never changes the master list, and the view it leaves is
\* made of devices of the master list in the order of the master list.
C10_FiltrarNaoAltera ==
    [][ultimo'.op \in {"filtrar_lista", "limpar_filtros"}
        => /\ dispositivos' = dispositivos
           /\ Subsequencia(dispositivos_exibidos', dispositivos')]_vars

\* a filter shows two of three devices
C10_Witness ==
    /\ ultimo.op = "filtrar_lista"
    /\ Len(dispositivos) = 3
    /\ Len(dispositivos_exibidos) = 2

\* every element of the master list is a device with a name
ComNomes ==
    \A i \in 1..Len(dispositivos) : ~NomeRaises(dispositivos[i])

\* the view filtrar_lista computes now, from the widgets and the master list
VistaAtual ==
    FiltrarLoop(programa, dispositivos, 1, <<>>, Lower(filter_nome_var),
                filter_tipo_var, filter_marca_var, filter_estado_var).exibidos

\* C11: the view is never stale: it is what the filter, with the values the
\* filter widgets hold, gives on the master list.
C11_VistaAtualizada ==
    (~terminado /\ ComNomes) => dispositivos_exibidos = VistaAtual

\* no row is selected, or the selected row has no entry in the view
SemSelecao(sel) == sel = 0 \/ sel > Len(dispositivos_exibidos)

\* C12: edit, remove and power toggle without a selected row, or with a row
\* whose entry cannot be found, report the error and change neither the
\* master list, nor the view, nor the rows, and open no form.
C12_SemSelecao ==
    [][\A sel \in Selecoes :
        (/\ SemSelecao(sel)
         /\ ultimo'.op \in {"abrir_janela_editar", "remover_dispositivo", "toggle_estado"}
         /\ \/ abrir_janela_editar_com(sel)
            \/ \E b \in BOOLEAN : remover_dispositivo_com(sel, b)
            \/ \E b \in BOOLEAN : toggle_estado_com(sel, b))
        => /\ ultimo'.msg \in {"showwarning", "showerror"}
           /\ ultimo'.res = "None"
           /\ UNCHANGED <<dispositivos, dispositivos_exibidos, tree, janela>>]_vars

\* Remover was pressed on a list of three devices with no row selected
C12_Witness ==
    /\ ultimo.op = "remover_dispositivo"
    /\ ultimo.msg = "showwarning"
    /\ Len(dispositivos) = 3
    /\ Len(dispositivos_exibidos) = 3

\* C13: a confirmed removal of the device at master position i leaves a list
\* one shorter, in which the elements before i are in place and every element
\* after i has moved down by one.
C13_RemocaoRenumera ==
    [][\A sel \in Selecoes :
        (~SemSelecao(sel) /\ ultimo'.op = "remover_dispositivo" /\ remover_dispositivo_com(sel, TRUE))
        => LET i == dispositivos_exibidos[sel]
           IN  /\ Len(dispositivos') = Len(dispositivos) - 1
               /\ \A j \in 1..(i - 1) : dispositivos'[j] = dispositivos[j]
               /\ \A j \in (i + 1)..Len(dispositivos) :
                      dispositivos'[j - 1] = dispositivos[j]]_vars

\* the first of the three devices of a document was removed
C13_Witness ==
    /\ ultimo.op = "remover_dispositivo"
    /\ ultimo.prompt = "sim"
    /\ Len(dispositivos) = 2
    /\ dispositivos[1].tipo = "Servidor"
    /\ dispositivos[2].tipo = "Switch"

\* C14: editar_dispositivo(index, device) with 0 <= index < length replaces
\* exactly the element at that index and keeps the length and every other
\* element; with any other index, a negative one included, it replaces
\* nothing.
C14_EditarValidaIndice ==
    [][\A index \in IndicesChamada :
        chamar_editar_dispositivo(index, DispNovo)
        => IF index \in 0..(Len(dispositivos) - 1)
           THEN /\ Len(dispositivos') = Len(dispositivos)
                /\ dispositivos'[index + 1] = DispNovo
                /\ \A j \in 1..Len(dispositivos) :
                       j # index + 1 => dispositivos'[j] = dispositivos[j]
           ELSE dispositivos' = dispositivos]_vars

\* C15: a successful edit of the device at master position i leaves at
\* position i a device of the type of the device that was there.
C15_TipoFixo ==
    [][\A p \in Preenchimentos :
        (janela.aberta /\ janela.index # 0 /\ ultimo'.op = "on_save" /\ ultimo'.msg = "" /\ on_save_com(p))
        => /\ Len(dispositivos') = Len(dispositivos)
           /\ dispositivos'[janela.index].tipo = dispositivos[janela.index].tipo]_vars

\* the Servidor of a document of three was edited: it has the name, brand
\* and model of the form, and the window is closed
C15_Witness ==
    /\ ultimo.op = "on_save"
    /\ ultimo.msg = ""
    /\ ~janela.aberta
    /\ Len(dispositivos) = 3
    /\ dispositivos[2].tipo = "Servidor"
    /\ dispositivos[2].nome = Completo.nome
    /\ dispositivos[2].marca = Completo.marca

\* the name of d is a str and is not empty
NomePreenchido(d) == d.nome # NomeNone /\ d.nome # <<>>

\* C16: while the program runs, every device of the master list has a name
\* that is a non-empty string.
C16_NomesPreenchidos ==
    ~terminado =>
        \A i \in 1..Len(dispositivos) :
            dispositivos[i] # NoneDisp => NomePreenchido(dispositivos[i])

\* C17: the load at startup shows no confirmation prompt and no message box;
\* when dispositivos.txt does not exist the master list stays empty.
C17_InicioSilencioso ==
    ultimo.op = "carregar_dispositivos_inicio" =>
        /\ ultimo.prompt = ""
        /\ ultimo.msg = ""
        /\ ultimo.lido = Nada => dispositivos = <<>>

\* the part of C17 about the prompt alone
InicioSemPergunta ==
    ultimo.op = "carregar_dispositivos_inicio" => ultimo.prompt = ""

\* the condition of filtrar_lista in program prog without the conjuncts of
\* the sub-predicates named in "fora" (each one absent from the condition)
SemSub(prog, d, f_nome, f_tipo, f_marca, f_estado, fora) ==
    IF prog = "gestor"
    THEN /\ Contains(f_nome, Lower(d.nome))
         /\ ("tipo" \in fora \/ f_tipo = "Todos" \/ d.tipo = f_tipo)
         /\ ("marca" \in fora \/ f_marca = "Todas" \/ d.marca = f_marca)
         /\ ("estado" \in fora \/ f_estado = "Todos" \/ d.estado = f_estado)
    ELSE ~ (/\ ~Contains(f_nome, Lower(d.nome))
            /\ ("tipo" \in fora \/ f_tipo = "Todos" \/ d.tipo # f_tipo)
            /\ ("marca" \in fora \/ f_marca = "Todas" \/ d.marca # f_marca)
            /\ ("estado" \in fora \/ f_estado = "Todos" \/ d.estado # f_estado))

\* the view of the current master list under the current filters, the
\* sub-predicates in "fora" being absent
VistaSem(fora) ==
    SelectSeq([i \in 1..Len(dispositivos) |-> i],
              LAMBDA i : SemSub(programa, dispositivos[i], Lower(filter_nome_var),
                                filter_tipo_var, filter_marca_var,
                                filter_estado_var, fora))

\* the sub-predicates whose filter shows its wildcard
Curingas ==
    (IF filter_tipo_var = "Todos" THEN {"tipo"} ELSE {})
    \cup (IF filter_marca_var = "Todas" THEN {"marca"} ELSE {})
    \cup (IF filter_estado_var = "Todos" THEN {"estado"} ELSE {})

C18_WitnessComentado ==
    /\ programa = "comentado"
    /\ ultimo.op = "filtrar_lista"
    /\ filter_estado_var = "Todos"
    /\ filter_tipo_var = "Servidor"
    /\ filter_nome_var = <<"1">>
    /\ dispositivos_exibidos # <<>>
    /\ Len(dispositivos_exibidos) < Len(dispositivos)

\* C19: toggle_estado(ligar) on the selected device sets that device's estado
\* to "Ligado" when ligar and to "Desligado" otherwise and changes nothing
\* else in it; a second application leaves the device as the first did; the
\* master list keeps its length and every other device, whatever the view
\* shows afterwards.
C19_ToggleSoEstado ==
    [][\A sel \in Selecoes, ligar_ \in BOOLEAN :
        (~SemSelecao(sel) /\ ultimo'.op = "toggle_estado" /\ toggle_estado_com(sel, ligar_))
        => LET i == dispositivos_exibidos[sel]
               estado == IF ligar_ THEN "Ligado" ELSE "Desligado"
               outra_vez == IF ligar_ THEN ligar(dispositivos'[i])
                            ELSE desligar(dispositivos'[i])
           IN  /\ Len(dispositivos') = Len(dispositivos)
               /\ dispositivos'[i] = [dispositivos[i] EXCEPT !.estado = estado]
               /\ outra_vez = dispositivos'[i]
               /\ \A j \in 1..Len(dispositivos) :
                      j # i => dispositivos'[j] = dispositivos[j]]_vars

\* under the state filter "Ligado" the one displayed router was switched
\* off: it left the view and is still in the master list, with the others
C19_Witness ==
    /\ ultimo.op = "toggle_estado"
    /\ ultimo.res = "None"
    /\ ultimo.msg = ""
    /\ filter_estado_var = "Ligado"
    /\ filter_tipo_var = "Router"
    /\ dispositivos_exibidos = <<>>
    /\ Len(dispositivos) >= 2
    /\ \E i \in 1..Len(dispositivos) :
        dispositivos[i].tipo = "Router" /\ dispositivos[i].estado = "Desligado"

\* C20: adicionar_dispositivo(device) puts the device at the end of the
\* master list: the length grows by one, every previous element keeps its
\* position, and no file is written.
C20_AdicionarNoFim ==
    [][\A d \in DispositivosAdicionados :
        chamar_adicionar_dispositivo(d)
        => /\ Len(dispositivos') = Len(dispositivos) + 1
           /\ dispositivos'[Len(dispositivos) + 1] = d
           /\ \A j \in 1..Len(dispositivos) : dispositivos'[j] = dispositivos[j]
           /\ ultimo'.escrito = Nada]_vars

\* a device was added after a router and a server
C20_Witness ==
    /\ ultimo.op = "adicionar_dispositivo"
    /\ ultimo.escrito = Nada
    /\ dispositivos = <<DispRouter, DispServidor, DispNovo>>

\* the value of a variant-specific field of a record: the one the record
\* gives under "dados_especificos", or the default when the key, or the
\* whole mapping, is absent
Campo(item, chave, default) ==
    IF "dados_especificos" \in DOMAIN item /\ chave \in DOMAIN item.dados_especificos
    THEN item.dados_especificos[chave] ELSE default

\* C21: the device decoded from a record of a recognised type has each
\* variant-specific field of the record, or its default when missing (port
\* count 0, IP and text fields "", sub-entry lists empty), and the state of
\* the "Estado" field, or "Desligado" when missing; also when the record has
\* no "dados_especificos" at all.
C21_DefeitosAoDescodificar ==
    (ultimo.op = "importar_dispositivos" /\ ultimo.res = "True")
    => LET item == ultimo.lido.valor[1]
           d == dispositivos[1]
       IN  /\ Len(dispositivos) = 1
           /\ d.tipo = item.Tipo
           /\ d.estado = (IF "Estado" \in DOMAIN item THEN item.Estado ELSE "Desligado")
           /\ d.tipo = "Router" =>
                /\ d.num_portas = Campo(item, "num_portas", 0)
                /\ d.interfaces_ip = Campo(item, "interfaces_ip", <<>>)
           /\ d.tipo = "Switch" =>
                /\ d.num_portas = Campo(item, "num_portas", 0)
                /\ d.ip_gestao = Campo(item, "ip_gestao", "")
                /\ d.port_vlan_map = Campo(item, "port_vlan_map", <<>>)
           /\ d.tipo = "Servidor" =>
                /\ d.endereco_ip = Campo(item, "endereco_ip", "")
                /\ d.sistema_operativo = Campo(item, "sistema_operativo", "")
                /\ d.servicos = Campo(item, "servicos", <<>>)

\* a Switch record with neither "Estado" nor "dados_especificos" was loaded
C21_Witness ==
    /\ ultimo.op = "importar_dispositivos"
    /\ ultimo.res = "True"
    /\ DOMAIN ultimo.lido.valor[1] = {"Nome", "Marca", "Modelo", "Tipo"}
    /\ dispositivos = <<Switch(NomeR1, "Cisco", "M", 0, "")>>

\* a Servidor record whose mapping gives the operating system alone
C21_WitnessParcial ==
    /\ ultimo.op = "importar_dispositivos"
    /\ ultimo.res = "True"
    /\ "dados_especificos" \in DOMAIN ultimo.lido.valor[1]
    /\ DOMAIN ultimo.lido.valor[1].dados_especificos = {"sistema_operativo"}
    /\ "Estado" \in DOMAIN ultimo.lido.valor[1]
    /\ dispositivos = <<ligar(Servidor(NomeR1, "Cisco", "M", "", "Linux"))>>

\* the device shown in row i of the Treeview
DaLinha(i) == dispositivos[dispositivos_exibidos[i]]

\* the rows were written by popular_lista from the current view
LinhasDaVista == Len(tree) = Len(dispositivos_exibidos)

\* C22 as stated: the IP column of a row, which is get_ip_principal of its
\* device, is the IP of the first interface for a Router that has
\* interfaces, the management IP for a Switch and the primary IP for a
\* Servidor.
C22_IpPrincipal ==
    LinhasDaVista =>
        \A i \in 1..Len(tree) :
            LET d == DaLinha(i)
            IN  /\ (d.tipo = "Router" /\ d.interfaces_ip # <<>>)
                    => tree[i].IP = d.interfaces_ip[1].ip
                /\ d.tipo = "Switch" => tree[i].IP = d.ip_gestao
                /\ d.tipo = "Servidor" => tree[i].IP = d.endereco_ip

\* C22 amended: get_ip_principal is the IP of the first interface for a
\* Router, or "Nenhum IP" when it has no interface or the first one has no
\* ip; the management IP for a Switch, or "N/A" when that IP is empty; the
\* primary IP for a Servidor.
C22_IpPrincipalOuDefeito ==
    LinhasDaVista =>
        \A i \in 1..Len(tree) :
            LET d == DaLinha(i)
            IN  /\ d.tipo = "Router" =>
                    tree[i].IP = (IF d.interfaces_ip # <<>>
                                     /\ "ip" \in DOMAIN d.interfaces_ip[1]
                                  THEN d.interfaces_ip[1].ip ELSE "Nenhum IP")
                /\ d.tipo = "Switch" =>
                    tree[i].IP = (IF d.ip_gestao \in {"", PyNone} THEN "N/A"
                                  ELSE d.ip_gestao)
                /\ d.tipo = "Servidor" => tree[i].IP = d.endereco_ip

\* a Router of two interfaces, the first with ip 192.168.1.1, was imported
\* and its row shows that IP
C22_Witness ==
    /\ ultimo.op = "importar_dispositivos"
    /\ ultimo.res = "True"
    /\ LinhasDaVista
    /\ \E i \in 1..Len(tree) :
        /\ DaLinha(i).tipo = "Router"
        /\ Len(DaLinha(i).interfaces_ip) = 2
        /\ DaLinha(i).interfaces_ip[1].ip # DaLinha(i).interfaces_ip[2].ip
        /\ tree[i].IP = "192.168.1.1"

\* the row of an imported Switch without management IP shows "N/A"
C22_WitnessSwitch ==
    /\ ultimo.op = "importar_dispositivos"
    /\ ultimo.res = "True"
    /\ LinhasDaVista
    /\ \E i \in 1..Len(tree) :
        /\ DaLinha(i).tipo = "Switch"
        /\ DaLinha(i).ip_gestao = ""
        /\ tree[i].IP = "N/A"

\* the sub-entries of a list whose peer is set
ComPar(lista) ==
    SelectSeq(lista, LAMBDA e : "ligado_a" \in DOMAIN e /\ e.ligado_a \notin {"", PyNone})

\* the texts ss joined by ", "
RECURSIVE Juntar(_)
Juntar(ss) ==
    IF ss = <<>> THEN ""
    ELSE IF Len(ss) = 1 THEN ss[1]
    ELSE Juntar(SubSeq(ss, 1, Len(ss) - 1)) \o ", " \o ss[Len(ss)]

\* "endpoint: peer" of the sub-entries with a peer, in list order, joined
\* by ", ", or the text vazio when no sub-entry has a peer
Resumo(lista, chave, vazio) ==
    LET pares == ComPar(lista)
    IN  IF pares = <<>> THEN vazio
        ELSE Juntar([k \in 1..Len(pares) |-> pares[k][chave] \o ": " \o pares[k].ligado_a])

\* the link summary in every row of a Router or Switch is Resumo, with the
\* text vazio for a device without linked sub-entries
LigacoesSao(vazio) ==
    LinhasDaVista =>
        \A i \in 1..Len(tree) :
            LET d == DaLinha(i)
            IN  /\ d.tipo = "Router" =>
                    tree[i].Ligacoes = Resumo(d.interfaces_ip, "iface", vazio)
                /\ d.tipo = "Switch" =>
                    tree[i].Ligacoes = Resumo(d.port_vlan_map, "porta", vazio)

\* C23 as stated: for a Router or a Switch get_ligacoes_str is the
\* "endpoint: peer" texts of exactly the sub-entries whose peer is set, in
\* list order, joined by ", ", and "None" when no sub-entry has a peer.
C23_LigacoesNone == LigacoesSao("None")

\* C23 amended: the same, with "Nenhuma" when no sub-entry has a peer.
C23_LigacoesNenhuma == LigacoesSao("Nenhuma")

\* an imported Router whose second interface alone is linked: its row shows
\* "Gi0/1: SW-Core"
C23_Witness ==
    /\ ultimo.op = "importar_dispositivos"
    /\ ultimo.res = "True"
    /\ LinhasDaVista
    /\ \E i \in 1..Len(tree) :
        /\ DaLinha(i).tipo = "Router"
        /\ DaLinha(i).interfaces_ip = <<IfaceB, IfaceA>>
        /\ tree[i].Ligacoes = "Gi0/1: SW-Core"

\* a Switch with two linked ports, and one with none
C23_WitnessSwitch ==
    /\ LinhasDaVista
    /\ \E i \in 1..Len(tree) :
        /\ DaLinha(i).tipo = "Switch"
        /\ \/ /\ DaLinha(i).port_vlan_map = <<PortaB, PortaB>>
              /\ tree[i].Ligacoes = "2: R1, 2: R1"
           \/ /\ DaLinha(i).port_vlan_map = <<PortaA>>
              /\ tree[i].Ligacoes = "Nenhuma"

\* the link summary in the row of every Servidor is the text defeito
LigacoesDoServidor(defeito) ==
    LinhasDaVista =>
        \A i \in 1..Len(tree) :
            DaLinha(i).tipo = "Servidor" => tree[i].Ligacoes = defeito

\* C24 as stated: a Servidor does not override get_ligacoes_str, and the
\* default of the base device it returns, in every state, is "None".
C24_DefeitoNone == LigacoesDoServidor("None")

\* C24 amended: the default of the base device is "N/A" for
\* get_ligacoes_str as for get_ip_principal, and every Servidor returns it.
C24_DefeitoNA == LigacoesDoServidor("N/A")

\* an imported Servidor, switched on and with two services: its row shows
\* "N/A" for the links
C24_Witness ==
    /\ ultimo.op = "importar_dispositivos"
    /\ ultimo.res = "True"
    /\ LinhasDaVista
    /\ \E i \in 1..Len(tree) :
        /\ DaLinha(i).tipo = "Servidor"
        /\ DaLinha(i).estado = "Ligado"
        /\ Len(DaLinha(i).servicos) = 2
        /\ tree[i].Ligacoes = "N/A"

\* C25: every element of the master list is a Router, a Switch or a
\* Servidor; the master list never holds None.
C25_SemNone ==
    \A i \in 1..Len(dispositivos) :
        dispositivos[i] # NoneDisp /\ dispositivos[i].tipo \in Tipos

\* C26: a successful edit puts at the master index of the edited device the
\* device of the form (its name, brand, model and sub-entries), with the
\* power state the edited device had when the form was opened; the length
\* of the master list and every other position are unchanged.  The state
\* at opening is the state at saving: opening the form changes no device,
\* and no step changes the state of the edited device while the form is open.
C26_EdicaoSubstitui ==
    [][/\ \A p \in Preenchimentos :
            (/\ janela.aberta
             /\ janela.index # 0
             /\ ultimo'.op = "on_save"
             /\ ultimo'.msg = ""
             /\ on_save_com(p))
            => LET i == janela.index
               IN  /\ Len(dispositivos') = Len(dispositivos)
                   /\ \A j \in 1..Len(dispositivos) :
                          j # i => dispositivos'[j] = dispositivos[j]
                   /\ dispositivos'[i].estado = dispositivos[i].estado
                   /\ dispositivos'[i].nome = p.nome
                   /\ dispositivos'[i].marca = p.marca
                   /\ dispositivos'[i].modelo = p.modelo
                   /\ SubLista(dispositivos'[i]) = janela.lista_dados
       /\ (~janela.aberta /\ janela'.aberta) => dispositivos' = dispositivos
       /\ (janela.aberta /\ janela.index # 0 /\ janela'.aberta)
            => /\ janela'.index = janela.index
               /\ dispositivos'[janela.index].estado = dispositivos[janela.index].estado
      ]_vars

\* the Switch of a document of three, switched on, was edited: it has the
\* name of the form and is still switched on
C26_Witness ==
    /\ ultimo.op = "on_save"
    /\ ultimo.msg = ""
    /\ ~janela.aberta
    /\ Len(dispositivos) = 3
    /\ dispositivos[1].tipo = "Router"
    /\ dispositivos[2].tipo = "Servidor"
    /\ dispositivos[3].tipo = "Switch"
    /\ dispositivos[3].nome = Completo.nome
    /\ dispositivos[3].nome # ItemSwitch.Nome
    /\ dispositivos[3].estado = "Ligado"

\* the step is a confirmed removal, or an import
Retira ==
    \/ ultimo'.op = "remover_dispositivo" /\ ultimo'.prompt = "sim"
    \/ ultimo'.op = "importar_dispositivos"

\* the device at master position j is still there after the step: the same
\* device, or the device an edit put in its place, or the same device with
\* the state a toggle gave it
Fica(j) ==
    \/ dispositivos'[j] = dispositivos[j]
    \/ ultimo'.op = "on_save" /\ janela.index = j
    \/ /\ ultimo'.op = "toggle_estado"
       /\ dispositivos'[j] = [dispositivos[j] EXCEPT !.estado = dispositivos'[j].estado]

\* C27: when a device is selected and the removal prompt is answered no,
\* the master list, the view and the rows are unchanged; and a step that is
\* neither a confirmed removal nor an import takes no device out of the
\* master list.
C27_RemocaoConfirmada ==
    [][/\ \A sel \in Selecoes :
            (/\ ~SemSelecao(sel)
             /\ ultimo'.op = "remover_dispositivo"
             /\ remover_dispositivo_com(sel, FALSE))
            => /\ ultimo'.prompt = "nao"
               /\ UNCHANGED <<dispositivos, dispositivos_exibidos, tree>>
       /\ ~Retira =>
            /\ Len(dispositivos') >= Len(dispositivos)
            /\ \A j \in 1..Len(dispositivos) : Fica(j)
      ]_vars

\* the removal of a device of a list of three was refused
C27_Witness ==
    /\ ultimo.op = "remover_dispositivo"
    /\ ultimo.prompt = "nao"
    /\ Len(dispositivos) = 3
    /\ dispositivos_exibidos = <<1, 2, 3>>
    /\ Len(tree) = 3

\* the step is a press of one of the three buttons of the sub-form
PassoDoSubFormulario ==
    ultimo'.op \in {"adicionar_novo_item", "guardar_edicao_selecionada",
                    "remover_item_selecionado"}

\* C28: while the edit form opened on a device is still editing that device,
\* opening it, adding, replacing or removing sub-entries in it, cancelling it
\* and saving it with a validation error all leave the master list as it
\* was, the sub-entry list of the edited device included.
C28_FormularioNaCopia ==
    [][/\ (~janela.aberta /\ janela'.aberta) => dispositivos' = dispositivos
       /\ (janela.aberta /\ janela.index # 0 /\ janela.original) =>
            /\ (PassoDoSubFormulario \/ ultimo'.op = "cancelar")
                    => dispositivos' = dispositivos
            /\ \A p \in Preenchimentos :
                    (ultimo'.op = "on_save" /\ Invalido(p) /\ on_save_com(p))
                        => dispositivos' = dispositivos
      ]_vars

\* the edit form has just lost a sub-entry that the edited device still has
C28_Witness ==
    /\ janela.aberta
    /\ janela.index # 0
    /\ janela.original
    /\ ultimo.op = "remover_item_selecionado"
    /\ ultimo.msg = ""
    /\ Len(janela.lista_dados) < Len(SubLista(dispositivos[janela.index]))

\* the edit form has just replaced a sub-entry that the edited device keeps
C28_WitnessSubstituir ==
    /\ janela.aberta
    /\ janela.index # 0
    /\ janela.original
    /\ ultimo.op = "guardar_edicao_selecionada"
    /\ ultimo.msg = ""
    /\ Len(janela.lista_dados) = Len(SubLista(dispositivos[janela.index]))
    /\ janela.lista_dados # SubLista(dispositivos[janela.index])

\* C29: in an import from the open dialog, a file that cannot be read or
\* parsed brings no confirmation prompt and no change; a prompt is shown
\* only for a parsed file and a non-empty master list; and the master list
\* changes only when the file was parsed, the prompt, if the list was not
\* empty, was answered yes, and the loop over the records ran to its end,
\* and it then is the complete list the loop built, never a part of it.
C29_OrdemDaImportacao ==
    [][(ultimo'.op = "importar_dispositivos" /\ ultimo'.lido # Nada) =>
        LET lido == json_load(ultimo'.lido)
        IN  /\ lido.exc # "" =>
                    ultimo'.prompt = "" /\ dispositivos' = dispositivos
            /\ ultimo'.prompt # "" => lido.exc = "" /\ dispositivos # <<>>
            /\ ultimo'.prompt = "nao" => dispositivos' = dispositivos
            /\ dispositivos' # dispositivos =>
                    /\ lido.exc = ""
                    /\ ultimo'.lido.kind = "json"
                    /\ dispositivos # <<>> => ultimo'.prompt = "sim"
                    /\ ~CarregarLoop(lido.val, <<>>).exc
                    /\ dispositivos' = CarregarLoop(lido.val, <<>>).nova_lista
      ]_vars

\* the prompt was answered yes, the second record of the document made the
\* loop raise, and the master list is the one of before the import
C29_Witness ==
    /\ ultimo.op = "importar_dispositivos"
    /\ ultimo.lido = DocNaoDict
    /\ ultimo.prompt = "sim"
    /\ ultimo.msg = "showerror"
    /\ dispositivos # <<>>
    /\ \A i \in 1..Len(dispositivos) : dispositivos[i] # NoneDisp

\* a file that is not JSON was imported into a non-empty master list: no prompt
C29_WitnessMalformado ==
    /\ ultimo.op = "importar_dispositivos"
    /\ ultimo.lido = Malformado
    /\ ultimo.prompt = ""
    /\ ultimo.res = "False"
    /\ dispositivos # <<>>

\* row i of the Treeview shows element i of the view, a device of the master list
LinhaMostra(i) ==
    /\ i <= Len(dispositivos_exibidos)
    /\ dispositivos_exibidos[i] \in 1..Len(dispositivos)
    /\ DaLinha(i) # NoneDisp
    /\ tree[i] = Linha(DaLinha(i))

\* C30: while the program runs, after every operation the Treeview has one
\* row per element of the view, in the same order, and row i shows the
\* device that is element i of the view, which is in the master list.
C30_LinhasEVista ==
    ~terminado =>
        /\ Len(tree) = Len(dispositivos_exibidos)
        /\ \A i \in 1..Len(tree) : LinhaMostra(i)

=============================================================================
